---- MODULE Spec2Model ----
(***************************************************************************)
(* CampusHire.ai scoring and matching core.                                *)
(*                                                                         *)
(*   - SemanticRanker (src/semantic_ranker.py): get_embedding with its     *)
(*     lru_cache wrapper and the .npy disk cache, calculate_match_score.   *)
(*   - InterviewEvaluator (src/backend/scoring/evaluator.py): the          *)
(*     per-response evaluation.                                            *)
(*   - VoiceInterviewAPI (src/backend/api/voice_interview_api.py):         *)
(*     create_session and the external-evaluation step.                    *)
(*                                                                         *)
(* Python floats are modelled as exact rationals (normalised fractions);   *)
(* floating-point rounding is not modelled.  Texts are sequences of atoms  *)
(* (single characters, or the literal fragments the code inserts).         *)
(***************************************************************************)
EXTENDS Integers, Sequences, FiniteSets, TLC

(***************************************************************************)
(* Exact rational arithmetic standing for Python float arithmetic.         *)
(***************************************************************************)
Abs(x) == IF x < 0 THEN -x ELSE x

RECURSIVE Gcd(_, _)
Gcd(a, b) == IF b = 0 THEN a ELSE Gcd(b, a % b)

\* the fraction n/d in lowest terms with a positive denominator
Rat(n, d) ==
    LET g == Gcd(Abs(n), Abs(d))
        s == IF d < 0 THEN -1 ELSE 1
    IN  [n |-> (s * n) \div g, d |-> (s * d) \div g]

RInt(i) == [n |-> i, d |-> 1]

\* sums, products and comparisons cancel common factors before they multiply,
\* which keeps the intermediate values small
RAdd(a, b) ==
    LET g == Gcd(a.d, b.d)
    IN  Rat(a.n * (b.d \div g) + b.n * (a.d \div g), a.d * (b.d \div g))

RSub(a, b) ==
    LET g == Gcd(a.d, b.d)
    IN  Rat(a.n * (b.d \div g) - b.n * (a.d \div g), a.d * (b.d \div g))

RMul(a, b) ==
    LET g1 == Gcd(Abs(a.n), b.d)
        g2 == Gcd(Abs(b.n), a.d)
    IN  Rat((a.n \div g1) * (b.n \div g2), (a.d \div g2) * (b.d \div g1))

RDiv(a, b) ==
    LET g1 == Gcd(Abs(a.n), Abs(b.n))
        g2 == Gcd(a.d, b.d)
    IN  Rat((a.n \div g1) * (b.d \div g2), (a.d \div g2) * (b.n \div g1))

RLe(a, b) ==
    LET g == Gcd(a.d, b.d)
    IN  a.n * (b.d \div g) <= b.n * (a.d \div g)

RLt(a, b) ==
    LET g == Gcd(a.d, b.d)
    IN  a.n * (b.d \div g) < b.n * (a.d \div g)

RAbs(a) == [n |-> Abs(a.n), d |-> a.d]

\* Python's max(a, b) and min(a, b): the first argument wins a tie
RMax(a, b) == IF RLt(a, b) THEN b ELSE a

RMin(a, b) == IF RLt(b, a) THEN b ELSE a

\* clamp(lo, hi, x) as the spec writes it
RClamp(lo, hi, x) == RMin(hi, RMax(lo, x))

(***************************************************************************)
(* Texts.                                                                  *)
(***************************************************************************)
Alphabet ==
    << "a", "d", "e", "p", "s", "v", "w", "y", "A", "P", "S", "W", "Y", " ",
       "Skills: ", "Worked at: ", ", ", "." >>

Code(c) == CHOOSE i \in 1..Len(Alphabet) : Alphabet[i] = c

\* str.lower() on one character
LowerChar(c) ==
    CASE c = "A" -> "a"
      [] c = "P" -> "p"
      [] c = "S" -> "s"
      [] c = "W" -> "w"
      [] c = "Y" -> "y"
      [] OTHER -> c

\* str.lower()
Lower(t) == [i \in 1..Len(t) |-> LowerChar(t[i])]

\* Python's `s in t` on strings
IsSubstring(s, t) ==
    \E i \in 0..(Len(t) - Len(s)) : SubSeq(t, i + 1, i + Len(s)) = s

\* sep.join(parts)
RECURSIVE Join(_, _)
Join(parts, sep) ==
    IF Len(parts) = 0 THEN << >>
    ELSE IF Len(parts) = 1 THEN parts[1]
    ELSE parts[1] \o sep \o Join(Tail(parts), sep)

(***************************************************************************)
(* The embedding provider and the cache keys.                              *)
(***************************************************************************)
\* src/semantic_ranker.py:29
MODEL_NAME == "all-MiniLM-L6-v2"

\* the SemanticRanker instances of the process, one per model name; the
\* module's singleton is the one for MODEL_NAME
Rankers == {MODEL_NAME, "paraphrase-MiniLM"}

\* hashlib.md5(text.encode('utf-8')).hexdigest(): a digest computed from the
\* characters of the text
RECURSIVE DigestFrom(_, _)
DigestFrom(h, t) ==
    IF Len(t) = 0 THEN h
    ELSE DigestFrom((h * 37 + Code(t[1])) % 1000003, Tail(t))

Md5(t) == DigestFrom(7, t)

\* the vectors the provider can yield: all of Euclidean norm 5, so that the
\* cosine of any two is an exact fraction
Vecs ==
    << <<3, 4>>, <<-3, -4>>, <<4, 3>>, <<5, 0>>, <<-4, 3>>, <<0, 5>>,
       <<4, -3>>, <<-5, 0>>, <<3, -4>>, <<0, -5>>, <<-3, 4>>, <<-4, -3>> >>

ModelSalt(m) == IF m = MODEL_NAME THEN 0 ELSE 5

\* SentenceTransformer(model_name).encode(text): deterministic in (model, text)
Encode(m, t) == Vecs[((Md5(t) + ModelSalt(m)) % Len(Vecs)) + 1]


\* _get_cache_path with the model name left out of the file name
CachePathIgnoringModel(m, t) == <<MODEL_NAME, Md5(t)>>

\* CACHE_DIR / f"{self.model_name}_{text_hash}.npy"
_get_cache_path(m, t) == <<m, Md5(t)>>

\* the key functools.lru_cache builds from the call's arguments (self, text)
LruKey(m, t) == <<m, t>>

(***************************************************************************)
(* Cosine similarity.                                                      *)
(***************************************************************************)
Dot(a, b) == a[1] * b[1] + a[2] * b[2]

ISqrt(n) == CHOOSE r \in 0..n : r * r <= n /\ (r + 1) * (r + 1) > n

\* sklearn normalises a zero vector with norm 1
Norm(a) == LET r == ISqrt(Dot(a, a)) IN IF r = 0 THEN 1 ELSE r

\* float(cosine_similarity(resume_embedding, job_embedding)[0][0])
CosineSimilarity(a, b) == Rat(Dot(a, b), Norm(a) * Norm(b))

(***************************************************************************)
(* calculate_match_score: the pure part.                                   *)
(***************************************************************************)
\* the profile text built from a resume dictionary
ResumeProfile(rd) ==
    LET skillsSec == IF Len(rd.skills) > 0
                     THEN << <<"Skills: ">> \o Join(rd.skills, <<", ">>) \o <<".">> >>
                     ELSE << >>
        orgsSec == IF Len(rd.organizations) > 0
                   THEN << <<"Worked at: ">> \o Join(rd.organizations, <<", ">>) \o <<".">> >>
                   ELSE << >>
        rawSec == IF rd.has_raw_text THEN <<rd.raw_text>> ELSE << >>
    IN  Join(skillsSec \o orgsSec \o rawSec, <<" ">>)


\* MatchedSkills with the .lower() calls dropped
MatchedSkillsCaseSensitive(skills, job_description) ==
    LET InJob(skill) == IsSubstring(skill, job_description)
    IN  SelectSeq(skills, InJob)

\* [skill for skill in skills if skill.lower() in job_desc_lower]
MatchedSkills(skills, job_description) ==
    LET InJob(skill) == IsSubstring(Lower(skill), Lower(job_description))
    IN  SelectSeq(skills, InJob)

\* (len(matched_skills) / len(skills)) * 100 if skills else 0
SkillMatch(skills, job_description) ==
    IF Len(skills) > 0
    THEN RMul(Rat(Len(MatchedSkills(skills, job_description)), Len(skills)), RInt(100))
    ELSE RInt(0)

\* overall_score = (similarity * 70) + (skill_match * 30)
OverallScoreRaw(similarity, skill_match) ==
    RAdd(RMul(similarity, RInt(70)), RMul(skill_match, RInt(30)))

\* 'semantic_similarity': similarity * 100
SemanticSimilarity(similarity) == RMul(similarity, RInt(100))

\* the dictionary calculate_match_score returns
MatchResult(rd, job_description, resume_embedding, job_embedding) ==
    LET similarity == CosineSimilarity(resume_embedding, job_embedding)
        matched == MatchedSkills(rd.skills, job_description)
        skill_match == SkillMatch(rd.skills, job_description)
    IN  [kind |-> "match",
         overall_score |-> RMin(RInt(100), RMax(RInt(0), OverallScoreRaw(similarity, skill_match))),
         semantic_similarity |-> SemanticSimilarity(similarity),
         skill_match_percentage |-> skill_match,
         matched_skills |-> matched,
         total_skills |-> Len(rd.skills),
         matched_skills_count |-> Len(matched)]

(***************************************************************************)
(* InterviewEvaluator: the keyword tables.  A response is represented by   *)
(* its word count, its sentence and unique-word counts and the set of      *)
(* table phrases that occur as substrings of response.lower().             *)
(***************************************************************************)
Domains == <<"programming", "web_development", "data_science", "devops">>

technical_keywords ==
    [programming |->
        <<"algorithm", "data structure", "object-oriented", "functional", "debugging",
          "testing", "unit test", "integration", "api", "database", "sql", "nosql">>,
     web_development |->
        <<"frontend", "backend", "full-stack", "react", "vue", "angular", "node.js",
          "express", "django", "flask", "rest", "graphql", "microservices">>,
     data_science |->
        <<"machine learning", "deep learning", "neural network", "pandas", "numpy",
          "tensorflow", "pytorch", "scikit-learn", "data analysis", "visualization">>,
     devops |->
        <<"docker", "kubernetes", "ci/cd", "jenkins", "git", "aws", "azure", "gcp",
          "terraform", "ansible", "monitoring", "deployment">>]

IndicatorTypes == <<"examples", "metrics", "leadership", "problem_solving">>

quality_indicators ==
    [examples |->
        <<"for example", "for instance", "in my experience", "when I worked on",
          "at my previous job", "in this project", "specifically", "particularly">>,
     metrics |->
        <<"increased by", "decreased by", "improved", "reduced", "% improvement",
          "performance gain", "faster", "more efficient", "cost saving">>,
     leadership |->
        <<"led a team", "managed", "coordinated", "organized", "mentored",
          "trained", "guided", "supervised", "collaborated">>,
     problem_solving |->
        <<"solved", "resolved", "fixed", "debugged", "optimized", "improved",
          "identified", "analyzed", "troubleshot", "implemented solution">>]

\* sum(1 for keyword in keywords if keyword in response_lower)
Hits(keywords, phrases) == Cardinality({i \in 1..Len(keywords) : keywords[i] \in phrases})

RECURSIVE SumOver(_, _, _)
SumOver(names, table, phrases) ==
    IF Len(names) = 0 THEN 0
    ELSE Hits(table[names[1]], phrases) + SumOver(Tail(names), table, phrases)

RECURSIVE LenOver(_, _)
LenOver(names, table) ==
    IF Len(names) = 0 THEN 0 ELSE Len(table[names[1]]) + LenOver(Tail(names), table)

IntMax(a, b) == IF a >= b THEN a ELSE b

IntMin(a, b) == IF a <= b THEN a ELSE b

\* dict.get(key, default)
Get(d, key, default) == IF key \in DOMAIN d THEN d[key] ELSE default

(***************************************************************************)
(* InterviewEvaluator: the per-response computations.                      *)
(***************************************************************************)
\* length_score with the ramp divided by 40 * 4 instead of divided by 40 and
\* multiplied by 4
LengthScoreFlatRamp(word_count) ==
    RMin(RInt(5), RMax(RInt(1), RAdd(Rat(word_count - 20, 40 * 4), RInt(1))))

\* length_score = min(5, max(1, (word_count - 20) / 40 * 4 + 1))
LengthScore(word_count) ==
    RMin(RInt(5), RMax(RInt(1), RAdd(RMul(Rat(word_count - 20, 40), RInt(4)), RInt(1))))

_calculate_rule_based_scores(response) ==
    LET hits == SumOver(Domains, technical_keywords, response.phrases)
        total_keywords == LenOver(Domains, technical_keywords)
        technical_score == RMin(RInt(5), RMul(Rat(hits, IntMax(total_keywords, 1)), RInt(10)))
        quality_score == RMin(RInt(5), RInt(SumOver(IndicatorTypes, quality_indicators, response.phrases)))
        length_score == LengthScore(response.word_count)
    IN  [overall_score |-> RDiv(RAdd(RAdd(technical_score, quality_score), length_score), RInt(3)),
         technical_score |-> technical_score,
         quality_score |-> quality_score,
         length_score |-> length_score]

\* any(indicator in response_lower for indicator in self.quality_indicators[type])
HasIndicator(type, phrases) == Hits(quality_indicators[type], phrases) > 0

_analyze_response_quality(response) ==
    [word_count |-> response.word_count,
     sentence_count |-> response.sentence_count,
     avg_sentence_length |-> Rat(response.word_count, IntMax(1, response.sentence_count)),
     unique_word_ratio |-> Rat(response.unique_words, IntMax(1, response.word_count)),
     has_examples |-> HasIndicator("examples", response.phrases),
     has_metrics |-> HasIndicator("metrics", response.phrases),
     shows_leadership |-> HasIndicator("leadership", response.phrases),
     shows_problem_solving |-> HasIndicator("problem_solving", response.phrases)]

\* max(domain_scores.items(), key=lambda x: x[1]): the first domain, in the
\* order of the table, whose score is maximal
BestDomain(phrases) ==
    LET score(i) == Hits(technical_keywords[Domains[i]], phrases)
        best == CHOOSE i \in 1..Len(Domains) :
                    /\ \A j \in 1..Len(Domains) : score(j) <= score(i)
                    /\ \A j \in 1..(i - 1) : score(j) < score(i)
    IN  <<Domains[best], score(best)>>

RECURSIVE KeywordsFound(_, _)
KeywordsFound(names, phrases) ==
    IF Len(names) = 0 THEN << >>
    ELSE LET Found(kw) == kw \in phrases
         IN  SelectSeq(technical_keywords[names[1]], Found) \o KeywordsFound(Tail(names), phrases)

_assess_technical_depth(response) ==
    LET best_domain == BestDomain(response.phrases)
        found == KeywordsFound(Domains, response.phrases)
    IN  [score |-> RMin(RInt(5), RMax(RInt(1), RMul(RInt(best_domain[2]), Rat(3, 2)))),
         domain_relevance |-> best_domain[1],
         keywords_found |-> SubSeq(found, 1, IF Len(found) < 10 THEN Len(found) ELSE 10)]

\* confidence = "high" if consistency >= 0.8 else "medium" if consistency >= 0.6 else "low"
Confidence(consistency) ==
    IF RLe(Rat(8, 10), consistency) THEN "high"
    ELSE IF RLe(Rat(6, 10), consistency) THEN "medium"
    ELSE "low"


\* _check_consistency without the max(0, ...) around the normalised difference
CheckConsistencyUnclamped(ai_eval, rule_eval) ==
    LET ai_score == Get(ai_eval, "overall_score", RInt(5))
        rule_score == Get(rule_eval, "overall_score", RInt(5))
        difference == RAbs(RSub(ai_score, rule_score))
        consistency == RSub(RInt(1), RDiv(difference, RInt(10)))
    IN  [consistency |-> consistency,
         confidence |-> Confidence(consistency),
         score_difference |-> difference]

_check_consistency(ai_eval, rule_eval) ==
    LET ai_score == Get(ai_eval, "overall_score", RInt(5))
        rule_score == Get(rule_eval, "overall_score", RInt(5))
        difference == RAbs(RSub(ai_score, rule_score))
        consistency == RMax(RInt(0), RSub(RInt(1), RDiv(difference, RInt(10))))
    IN  [consistency |-> consistency,
         confidence |-> Confidence(consistency),
         score_difference |-> difference]


\* _calculate_weighted_score with the two weights exchanged
WeightedScoreSwapped(ai_eval, rule_eval) ==
    LET ai_score == Get(ai_eval, "overall_score", RInt(5))
        rule_score == Get(rule_eval, "overall_score", RInt(5))
        weighted_score == RAdd(RMul(ai_score, Rat(3, 10)), RMul(rule_score, Rat(7, 10)))
    IN  RMin(RInt(10), RMax(RInt(1), weighted_score))

_calculate_weighted_score(ai_eval, rule_eval) ==
    LET ai_score == Get(ai_eval, "overall_score", RInt(5))
        rule_score == Get(rule_eval, "overall_score", RInt(5))
        weighted_score == RAdd(RMul(ai_score, Rat(7, 10)), RMul(rule_score, Rat(3, 10)))
    IN  RMin(RInt(10), RMax(RInt(1), weighted_score))

\* the value None passed where a dictionary is expected
None == [is_none |-> TRUE]

IsNone(v) == "is_none" \in DOMAIN v

\* evaluate_response_comprehensively: the dictionary it returns, or the
\* AttributeError of ai_evaluation.get when ai_evaluation is None.  The
\* timestamp field (datetime.now()) is left out.
evaluate_response_comprehensively(response, category, ai_evaluation) ==
    LET rule_based_scores == _calculate_rule_based_scores(response)
        quality_metrics == _analyze_response_quality(response)
        technical_depth == _assess_technical_depth(response)
    IN  IF IsNone(ai_evaluation) THEN [status |-> "raised", error |-> "AttributeError"]
        ELSE LET consistency_check == _check_consistency(ai_evaluation, rule_based_scores)
             IN  [status |-> "ok",
                  eval |->
                    [ai_overall_score |-> Get(ai_evaluation, "overall_score", RInt(5)),
                     ai_technical_depth |-> Get(ai_evaluation, "technical_depth", RInt(3)),
                     ai_communication |-> Get(ai_evaluation, "communication_clarity", RInt(3)),
                     rule_based_score |-> rule_based_scores.overall_score,
                     technical_keyword_score |-> rule_based_scores.technical_score,
                     quality_indicator_score |-> rule_based_scores.quality_score,
                     response_length |-> quality_metrics.word_count,
                     sentence_complexity |-> quality_metrics.avg_sentence_length,
                     vocabulary_richness |-> quality_metrics.unique_word_ratio,
                     technical_domain_match |-> technical_depth.domain_relevance,
                     technical_keywords_found |-> technical_depth.keywords_found,
                     final_overall_score |-> _calculate_weighted_score(ai_evaluation, rule_based_scores),
                     final_technical_depth |->
                        RMax(Get(ai_evaluation, "technical_depth", RInt(3)), technical_depth.score),
                     final_communication |-> Get(ai_evaluation, "communication_clarity", RInt(3)),
                     has_specific_examples |-> quality_metrics.has_examples,
                     mentions_metrics |-> quality_metrics.has_metrics,
                     shows_leadership |-> quality_metrics.shows_leadership,
                     demonstrates_problem_solving |-> quality_metrics.shows_problem_solving,
                     consistency_score |-> consistency_check.consistency,
                     evaluation_confidence |-> consistency_check.confidence,
                     category |-> category]]

(***************************************************************************)
(* Real numbers of the form a + s*sqrt(r), s = 1 or -1: what math.sqrt of  *)
(* a variance and the arithmetic done on it produce.  A value that is      *)
(* rational is kept as a fraction.                                         *)
(***************************************************************************)
RECURSIVE RootBetween(_, _, _)
\* the largest k in lo..hi with k*k <= n, given lo*lo <= n
RootBetween(n, lo, hi) ==
    IF lo >= hi THEN lo
    ELSE LET mid == (lo + hi + 1) \div 2
         IN  IF mid * mid <= n THEN RootBetween(n, mid, hi) ELSE RootBetween(n, lo, mid - 1)

IntRoot(n) == RootBetween(n, 0, IF n < 46340 THEN n ELSE 46340)

IsSquare(n) == IntRoot(n) * IntRoot(n) = n

Real(a, s, r) ==
    IF IsSquare(r.n) /\ IsSquare(r.d)
    THEN RAdd(a, RMul(RInt(s), Rat(IntRoot(r.n), IntRoot(r.d))))
    ELSE [a |-> a, s |-> s, r |-> r]

IsRational(x) == "n" \in DOMAIN x

\* x >= c for a fraction c
RealGe(x, c) ==
    IF IsRational(x) THEN RLe(c, x)
    ELSE LET gap == RSub(c, x.a)
         IN  IF x.s = 1 THEN RLe(gap, RInt(0)) \/ RLe(RMul(gap, gap), x.r)
             ELSE RLe(gap, RInt(0)) /\ RLe(x.r, RMul(gap, gap))

RealLt(x, c) == ~RealGe(x, c)

\* x > c for a fraction c
RealGt(x, c) ==
    IF IsRational(x) THEN RLt(c, x)
    ELSE LET gap == RSub(c, x.a)
         IN  IF x.s = 1 THEN RLt(gap, RInt(0)) \/ RLt(RMul(gap, gap), x.r)
             ELSE RLt(gap, RInt(0)) /\ RLt(x.r, RMul(gap, gap))

\* math.sqrt(q)
Sqrt(q) == Real(RInt(0), 1, q)

\* k - x / c for fractions k, c > 0
RealComplement(k, x, c) ==
    IF IsRational(x) THEN RSub(k, RDiv(x, c))
    ELSE Real(RSub(k, RDiv(x.a, c)), -x.s, RDiv(x.r, RMul(c, c)))

\* x * c + k for fractions c > 0, k
RealScale(x, c, k) ==
    IF IsRational(x) THEN RAdd(RMul(x, c), k)
    ELSE Real(RAdd(RMul(x.a, c), k), x.s, RMul(x.r, RMul(c, c)))

(***************************************************************************)
(* InterviewEvaluator: statistics over a list of scores.                   *)
(***************************************************************************)
RECURSIVE RSum(_)
RSum(values) == IF Len(values) = 0 THEN RInt(0) ELSE RAdd(Head(values), RSum(Tail(values)))

RECURSIVE Insert(_, _)
Insert(sorted, x) ==
    IF Len(sorted) = 0 THEN <<x>>
    ELSE IF RLt(x, Head(sorted)) THEN <<x>> \o sorted
    ELSE <<Head(sorted)>> \o Insert(Tail(sorted), x)

RECURSIVE Sorted(_)
Sorted(values) ==
    IF Len(values) = 0 THEN << >>
    ELSE Insert(Sorted(SubSeq(values, 1, Len(values) - 1)), values[Len(values)])

_safe_mean(values) ==
    IF Len(values) > 0 THEN RDiv(RSum(values), RInt(Len(values))) ELSE RInt(0)

_safe_median(values) ==
    IF Len(values) = 0 THEN RInt(0)
    ELSE LET sorted_values == Sorted(values)
             n == Len(values)
         IN  IF n % 2 = 1 THEN sorted_values[(n \div 2) + 1]
             ELSE RDiv(RAdd(sorted_values[n \div 2], sorted_values[(n \div 2) + 1]), RInt(2))

Variance(values) ==
    LET mean == _safe_mean(values)
        squares == [i \in 1..Len(values) |-> RMul(RSub(values[i], mean), RSub(values[i], mean))]
    IN  RDiv(RSum(squares), RInt(Len(values)))

\* _safe_std dividing by one less than the number of values
SampleStd(values) ==
    IF Len(values) < 2 THEN RInt(0)
    ELSE Sqrt(RDiv(RMul(Variance(values), RInt(Len(values))), RInt(Len(values) - 1)))

_safe_std(values) ==
    IF Len(values) < 2 THEN RInt(0) ELSE Sqrt(Variance(values))

_categorize_performance(score) ==
    IF RLe(RInt(8), score) THEN "excellent"
    ELSE IF RLe(RInt(6), score) THEN "good"
    ELSE IF RLe(RInt(4), score) THEN "average"
    ELSE "below_average"

\* _calculate_improvement_trend with the larger half taken first when the
\* number of scores is odd
TrendLargerHalfFirst(scores) ==
    IF Len(scores) < 3 THEN "insufficient_data"
    ELSE LET first_half == SubSeq(scores, 1, (Len(scores) + 1) \div 2)
             second_half == SubSeq(scores, ((Len(scores) + 1) \div 2) + 1, Len(scores))
             first_avg == _safe_mean(first_half)
             second_avg == _safe_mean(second_half)
         IN  IF RLt(RAdd(first_avg, Rat(1, 2)), second_avg) THEN "improving"
             ELSE IF RLt(second_avg, RSub(first_avg, Rat(1, 2))) THEN "declining"
             ELSE "stable"

_calculate_improvement_trend(scores) ==
    IF Len(scores) < 3 THEN "insufficient_data"
    ELSE LET first_half == SubSeq(scores, 1, Len(scores) \div 2)
             second_half == SubSeq(scores, (Len(scores) \div 2) + 1, Len(scores))
             first_avg == _safe_mean(first_half)
             second_avg == _safe_mean(second_half)
         IN  IF RLt(RAdd(first_avg, Rat(1, 2)), second_avg) THEN "improving"
             ELSE IF RLt(second_avg, RSub(first_avg, Rat(1, 2))) THEN "declining"
             ELSE "stable"

\* max(0, 1 - (std_dev / 4.5)), 1.0 for fewer than two scores
_calculate_consistency_rating(scores) ==
    IF Len(scores) < 2 THEN RInt(1)
    ELSE LET rating == RealComplement(RInt(1), _safe_std(scores), Rat(9, 2))
         IN  IF RealGt(rating, RInt(0)) THEN rating ELSE RInt(0)

\* sum(1 for r in responses if test(r))
CountWhere(responses, Test(_)) == Cardinality({i \in 1..Len(responses) : Test(responses[i])})

_identify_red_flags(responses) ==
    LET IsShort(r) == r.response_text.word_count < 15
        IsLow(r) == RLt(Get(r.evaluation, "overall_score", RInt(5)), RInt(4))
        NoExample(r) == ~Get(r.evaluation, "has_specific_examples", FALSE)
        n == RInt(Len(responses))
    IN  (IF RLe(RMul(n, Rat(4, 10)), RInt(CountWhere(responses, IsShort)))
         THEN <<"Multiple very brief responses - may indicate lack of depth">> ELSE << >>)
        \o (IF RLe(RMul(n, Rat(5, 10)), RInt(CountWhere(responses, IsLow)))
            THEN <<"Consistently low performance across multiple areas">> ELSE << >>)
        \o (IF RLe(RMul(n, Rat(7, 10)), RInt(CountWhere(responses, NoExample)))
            THEN <<"Lack of specific examples or concrete experience">> ELSE << >>)

_identify_standout_indicators(responses) ==
    LET IsHigh(r) == RLe(RInt(8), Get(r.evaluation, "overall_score", RInt(5)))
        IsTechnical(r) == RLe(RInt(4), Get(r.evaluation, "technical_depth", RInt(3)))
        Leads(r) == Get(r.evaluation, "shows_leadership", FALSE)
        n == RInt(Len(responses))
    IN  (IF RLe(RMul(n, Rat(4, 10)), RInt(CountWhere(responses, IsHigh)))
         THEN <<"Multiple excellent responses demonstrating strong competency">> ELSE << >>)
        \o (IF RLe(RMul(n, Rat(3, 10)), RInt(CountWhere(responses, IsTechnical)))
            THEN <<"Strong technical knowledge and depth">> ELSE << >>)
        \o (IF CountWhere(responses, Leads) >= 2
            THEN <<"Demonstrates leadership experience and skills">> ELSE << >>)

\* _generate_hiring_recommendation deciding on the mean alone
RecommendationByMeanOnly(mean_score, consistency) ==
    IF RLe(Rat(75, 10), mean_score)
    THEN "Strong Hire - Excellent candidate with consistent performance"
    ELSE IF RLe(Rat(65, 10), mean_score)
    THEN "Hire - Good candidate with solid performance"
    ELSE IF RLe(Rat(55, 10), mean_score)
    THEN "Maybe - Average candidate, consider specific role requirements"
    ELSE "Pass - Performance below expectations for this role"

_generate_hiring_recommendation(mean_score, consistency) ==
    IF RLe(Rat(75, 10), mean_score) /\ RealGe(consistency, Rat(7, 10))
    THEN "Strong Hire - Excellent candidate with consistent performance"
    ELSE IF RLe(Rat(65, 10), mean_score) /\ RealGe(consistency, Rat(6, 10))
    THEN "Hire - Good candidate with solid performance"
    ELSE IF RLe(Rat(55, 10), mean_score)
    THEN "Maybe - Average candidate, consider specific role requirements"
    ELSE "Pass - Performance below expectations for this role"

_identify_development_areas(aggregate_scores) ==
    (IF RLt(aggregate_scores.technical_statistics.mean, RInt(3))
     THEN <<"Technical skills and knowledge">> ELSE << >>)
    \o (IF RLt(aggregate_scores.communication_statistics.mean, RInt(3))
        THEN <<"Communication and articulation">> ELSE << >>)
    \o (IF RealLt(aggregate_scores.performance_consistency, Rat(6, 10))
        THEN <<"Consistency and confidence in responses">> ELSE << >>)

RECURSIVE SumCounts(_, _)
\* sum(cat_data.get("response_count", 0) for cat_data in category_performance.values())
SumCounts(category_performance, categories) ==
    IF categories = {} THEN 0
    ELSE LET c == CHOOSE x \in categories : TRUE
         IN  category_performance[c].response_count
                + SumCounts(category_performance, categories \ {c})

ResponseCount(aggregate_scores) ==
    SumCounts(aggregate_scores.category_performance, DOMAIN aggregate_scores.category_performance)

_assess_interview_quality(aggregate_scores) ==
    LET response_count == ResponseCount(aggregate_scores)
        consistency == aggregate_scores.performance_consistency
    IN  IF response_count >= 5 /\ RealGe(consistency, Rat(7, 10))
        THEN "High quality interview with reliable data"
        ELSE IF response_count >= 3 /\ RealGe(consistency, Rat(5, 10))
        THEN "Good quality interview with actionable insights"
        ELSE "Limited interview data - consider additional assessment"

_calculate_overall_confidence(aggregate_scores) ==
    LET data_confidence == RMin(Rat(3, 10), RMul(Rat(ResponseCount(aggregate_scores), 10), Rat(3, 10)))
        confidence == RealScale(aggregate_scores.performance_consistency, Rat(7, 10), data_confidence)
    IN  IF RealLt(confidence, RInt(1)) THEN confidence ELSE RInt(1)

\* _empty_aggregate_scores with an empty red-flag list
EmptyAggregateWithoutFlag ==
    [overall_statistics |->
        [mean |-> RInt(0), median |-> RInt(0), std_deviation |-> RInt(0),
         min_score |-> RInt(0), max_score |-> RInt(0), score_range |-> RInt(0)],
     technical_statistics |-> [mean |-> RInt(0), consistency |-> RInt(0)],
     communication_statistics |-> [mean |-> RInt(0), consistency |-> RInt(0)],
     category_performance |-> << >>,
     improvement_trend |-> "no_data",
     performance_consistency |-> RInt(0),
     red_flags |-> << >>,
     standout_indicators |-> << >>]

_empty_aggregate_scores ==
    [overall_statistics |->
        [mean |-> RInt(0), median |-> RInt(0), std_deviation |-> RInt(0),
         min_score |-> RInt(0), max_score |-> RInt(0), score_range |-> RInt(0)],
     technical_statistics |-> [mean |-> RInt(0), consistency |-> RInt(0)],
     communication_statistics |-> [mean |-> RInt(0), consistency |-> RInt(0)],
     category_performance |-> << >>,
     improvement_trend |-> "no_data",
     performance_consistency |-> RInt(0),
     red_flags |-> <<"No interview responses to evaluate">>,
     standout_indicators |-> << >>]

\* the scores of one kind, in the order of the responses
ScoresOf(all_responses, final_key, key, default) ==
    [i \in 1..Len(all_responses) |->
        Get(all_responses[i].evaluation, final_key,
            Get(all_responses[i].evaluation, key, RInt(default)))]

\* category_performance[category]: eval_data.get("overall_score", 5) of the
\* responses of that category, in order
CategoryScores(all_responses, category) ==
    LET OfCategory(r) == Get(r, "category", "general") = category
        chosen == SelectSeq(all_responses, OfCategory)
    IN  [i \in 1..Len(chosen) |-> Get(chosen[i].evaluation, "overall_score", RInt(5))]

calculate_interview_aggregate_scores(all_responses) ==
    IF Len(all_responses) = 0 THEN _empty_aggregate_scores
    ELSE LET overall_scores ==
                ScoresOf(all_responses, "final_overall_score", "overall_score", 5)
             technical_scores ==
                ScoresOf(all_responses, "final_technical_depth", "technical_depth", 3)
             communication_scores ==
                ScoresOf(all_responses, "final_communication", "communication_clarity", 3)
             categories ==
                {Get(all_responses[i], "category", "general") : i \in 1..Len(all_responses)}
             sorted_scores == Sorted(overall_scores)
         IN  [overall_statistics |->
                [mean |-> _safe_mean(overall_scores),
                 median |-> _safe_median(overall_scores),
                 std_deviation |-> _safe_std(overall_scores),
                 min_score |-> sorted_scores[1],
                 max_score |-> sorted_scores[Len(sorted_scores)],
                 score_range |-> RSub(sorted_scores[Len(sorted_scores)], sorted_scores[1])],
              technical_statistics |->
                [mean |-> _safe_mean(technical_scores),
                 consistency |-> RealComplement(RInt(1), _safe_std(technical_scores), RInt(5))],
              communication_statistics |->
                [mean |-> _safe_mean(communication_scores),
                 consistency |-> RealComplement(RInt(1), _safe_std(communication_scores), RInt(5))],
              category_performance |->
                [category \in categories |->
                    LET scores == CategoryScores(all_responses, category)
                    IN  [average_score |-> _safe_mean(scores),
                         response_count |-> Len(scores),
                         performance_level |-> _categorize_performance(_safe_mean(scores))]],
              improvement_trend |-> _calculate_improvement_trend(overall_scores),
              performance_consistency |-> _calculate_consistency_rating(overall_scores),
              red_flags |-> _identify_red_flags(all_responses),
              standout_indicators |-> _identify_standout_indicators(all_responses)]

generate_scoring_insights(aggregate_scores) ==
    LET mean_score == aggregate_scores.overall_statistics.mean
        consistency == aggregate_scores.performance_consistency
    IN  [performance_level |-> _categorize_performance(mean_score),
         key_insights |->
            <<IF RLe(RInt(8), mean_score)
                THEN "Consistently strong performance across all areas"
              ELSE IF RLe(RInt(6), mean_score)
                THEN "Solid overall performance with some standout responses"
              ELSE IF RLe(RInt(4), mean_score)
                THEN "Mixed performance - shows potential but needs development"
              ELSE "Performance below expectations - significant development needed",
              IF RealGe(consistency, Rat(8, 10)) THEN "Highly consistent response quality"
              ELSE IF RealGe(consistency, Rat(6, 10))
                THEN "Generally consistent with occasional variations"
              ELSE "Inconsistent response quality - may indicate nervousness or knowledge gaps">>,
         hiring_recommendation |-> _generate_hiring_recommendation(mean_score, consistency),
         development_areas |-> _identify_development_areas(aggregate_scores),
         interview_quality_assessment |-> _assess_interview_quality(aggregate_scores),
         confidence_level |-> _calculate_overall_confidence(aggregate_scores)]

(***************************************************************************)
(* VoiceInterviewAPI.create_session: resume processing and matching.       *)
(***************************************************************************)
\* a Python value tagged with its type, as calculate_match_score receives it
DictValue(rd) == [type |-> "dict", value |-> rd]

StrValue(text) == [type |-> "str", value |-> text]

\* create_resume_profile(resume_data) -> str
create_resume_profile(cd) ==
    LET nameSec == IF "name" \in DOMAIN cd THEN << <<"Candidate: ">> \o cd.name >> ELSE << >>
        mailSec == IF "email" \in DOMAIN cd THEN << <<"Contact: ">> \o cd.email >> ELSE << >>
        skillsSec == IF Len(Get(cd, "skills", << >>)) > 0
                     THEN << <<"Skills: ">> \o Join(cd.skills, <<", ">>) \o <<".">> >>
                     ELSE << >>
        orgsSec == IF Len(Get(cd, "organizations", << >>)) > 0
                   THEN << <<"Professional Experience: Worked at ">>
                           \o Join(cd.organizations, <<", ">>) \o <<".">> >>
                   ELSE << >>
        rawSec == IF "raw_text" \in DOMAIN cd THEN <<cd.raw_text>> ELSE << >>
    IN  Join(nameSec \o mailSec \o skillsSec \o orgsSec \o rawSec, <<"\n">>)

\* the resume dictionary as calculate_match_score reads it
AsResumeData(cd) ==
    [skills |-> Get(cd, "skills", << >>),
     organizations |-> Get(cd, "organizations", << >>),
     has_raw_text |-> "raw_text" \in DOMAIN cd,
     raw_text |-> Get(cd, "raw_text", << >>)]

\* calculate_match_score(resume_data, job_description) run to completion by one
\* caller: resume_data.get raises AttributeError on anything but a dictionary
calculate_match_score(resume_data, job_description) ==
    IF resume_data.type # "dict"
    THEN [status |-> "raised", error |-> "AttributeError"]
    ELSE LET rd == AsResumeData(resume_data.value)
         IN  [status |-> "ok",
              value |-> MatchResult(rd, job_description,
                                    Encode(MODEL_NAME, ResumeProfile(rd)),
                                    Encode(MODEL_NAME, job_description))]

\* the integer 0 that resume_match_score starts with
ZeroScore == [kind |-> "number", value |-> 0]

\* f"{value:.1f}" raises TypeError unless value is a number
FormatsAsFloat(value) == value.kind = "number"

\* the resume branch of create_session: candidate_data, resume_match_score and
\* the processing log it leaves behind
ProcessResume(job_description, resume_file, modules) ==
    LET log0 == [resume_uploaded |-> ~IsNone(resume_file),
                 processing_status |-> "no_resume",
                 extraction_successful |-> FALSE,
                 match_calculation |-> FALSE,
                 secure_deletion |-> FALSE]
        start == [candidate_data |-> None, resume_match_score |-> ZeroScore,
                  resume_processing_log |-> log0]
    IN  IF IsNone(resume_file) \/ ~modules.parser THEN start
        ELSE IF resume_file.extraction = "raises"
        THEN [start EXCEPT !.resume_processing_log.processing_status = "error"]
        ELSE IF resume_file.extraction = "empty"
        THEN [start EXCEPT !.resume_processing_log.processing_status = "extraction_failed",
                           !.resume_processing_log.secure_deletion = TRUE]
        ELSE LET extracted ==
                    [start EXCEPT !.candidate_data = resume_file.entities,
                                  !.resume_processing_log.processing_status = "processing",
                                  !.resume_processing_log.extraction_successful = TRUE]
             IN  IF Len(job_description) > 0 /\ modules.matcher
                 THEN LET resume_profile == create_resume_profile(resume_file.entities)
                          outcome == calculate_match_score(StrValue(resume_profile), job_description)
                      IN  IF outcome.status = "raised"
                          THEN [extracted EXCEPT !.resume_processing_log.processing_status = "error"]
                          ELSE LET matched ==
                                      [extracted EXCEPT !.resume_match_score = outcome.value,
                                                        !.resume_processing_log.match_calculation = TRUE]
                               IN  IF FormatsAsFloat(outcome.value)
                                   THEN [matched EXCEPT !.resume_processing_log.secure_deletion = TRUE]
                                   ELSE [matched EXCEPT !.resume_processing_log.processing_status = "error"]
                 ELSE [extracted EXCEPT !.resume_processing_log.secure_deletion = TRUE]

(***************************************************************************)
(* State.                                                                  *)
(***************************************************************************)
VARIABLES
    lru,        \* the lru_cache of get_embedding: entries, least recent first
    disk,       \* the .npy files of CACHE_DIR: path -> content
    thr,        \* each caller's position in get_embedding / calculate_match_score
    computed,   \* history: how often the provider produced a vector, per key
    started,    \* number of calls started so far
    evalIn,     \* the arguments of the last evaluate_response_comprehensively call
    evalOut,    \* what that call returned or raised
    ruleLog,    \* the last two _calculate_rule_based_scores calls: argument and result
    aggIn,      \* the response list handed to calculate_interview_aggregate_scores
    aggOut,     \* the aggregate report it returned
    aggInsights,        \* what generate_scoring_insights made of that report
    aggAgain,   \* the calls of the aggregate scoring after the first, in order
    MODULES_STATUS,     \* which optional modules the import block found
    active_sessions,    \* session_id -> session (session_storage holds the same objects)
    ai_available,       \* VoiceInterviewAPI.ai_available, set by the constructor
    apiOut,     \* what the last API call returned or raised
    last_report,        \* the body of the last final report sent to a client
    ai_log      \* history: the external model's reply behind each recorded response

matcherVars == <<lru, disk, thr, computed, started>>

evalVars == <<evalIn, evalOut, ruleLog, aggIn, aggOut, aggInsights, aggAgain>>

sessionVars == <<MODULES_STATUS, active_sessions, ai_available, apiOut, last_report, ai_log>>

vars == <<lru, disk, thr, computed, started, evalIn, evalOut, ruleLog, aggIn, aggOut, aggInsights,
          aggAgain, MODULES_STATUS, active_sessions, ai_available, apiOut, last_report, ai_log>>

(***************************************************************************)
(* Bounds and inputs.                                                      *)
(***************************************************************************)
\* capacity of the lru_cache in the model (maxsize=1000 in the source)
LruMaxSize == 2

\* number of calls the callers start in one behaviour
MaxRequests == 3

Threads == {"t1", "t2"}

\* create_session runs calculate_match_score inside the event loop without
\* awaiting, so one match is in flight at a time; get_embedding has other callers
MatchCallers == {"t1"}

Py == <<"p", "y">>

Aws == <<"a", "w", "s">>

AwsUpper == <<"A", "W", "S">>

Sap == <<"S", "A", "P">>

ResumeInputs ==
    { [skills |-> <<Py, Aws>>, organizations |-> << >>, has_raw_text |-> FALSE, raw_text |-> << >>],
      [skills |-> << >>, organizations |-> <<Sap>>, has_raw_text |-> FALSE, raw_text |-> << >>],
      [skills |-> <<AwsUpper>>, organizations |-> << >>, has_raw_text |-> TRUE, raw_text |-> <<"d", "e", "v">>] }

JobPyDev == <<"P", "y", " ", "d", "e", "v">>

JobPaws == <<"p", "a", "w", "s">>

JobEmpty == << >>

JobInputs == {JobPyDev, JobPaws, JobEmpty}

TextInputs == {JobPyDev, JobPaws}

(***************************************************************************)
(* The lru_cache wrapper.                                                  *)
(***************************************************************************)
LruHas(l, k) == \E i \in 1..Len(l) : l[i].key = k

LruGet(l, k) == l[CHOOSE i \in 1..Len(l) : l[i].key = k].val

\* a hit moves the entry to the most-recent end
LruTouch(l, k) ==
    LET IsOther(e) == e.key # k
        IsKey(e) == e.key = k
    IN  SelectSeq(l, IsOther) \o SelectSeq(l, IsKey)

\* after the wrapped function returned: keep an entry another caller inserted
\* meanwhile, else insert, evicting the least recent entry of a full cache
LruInsert(l, k, v) ==
    IF LruHas(l, k) THEN l
    ELSE IF Len(l) >= LruMaxSize THEN Append(Tail(l), [key |-> k, val |-> v])
    ELSE Append(l, [key |-> k, val |-> v])

(***************************************************************************)
(* Callers.                                                                *)
(***************************************************************************)
NoVec == << >>

\* content of a cache file np.save has opened and not yet written
Partial == << >>

NoResume == [skills |-> << >>, organizations |-> << >>, has_raw_text |-> FALSE, raw_text |-> << >>]

NoResult == [kind |-> "none"]

IdleThread ==
    [pc |-> "idle", op |-> "none", ranker |-> MODEL_NAME, text |-> << >>, stage |-> 0,
     resume |-> NoResume, jd |-> << >>, emb |-> NoVec, src |-> "none",
     rvec |-> NoVec, failed |-> FALSE, result |-> NoResult]

\* get_embedding returns vec to its caller
Deliver(c, vec, src) ==
    IF c.op = "ge"
    THEN [c EXCEPT !.pc = "returned", !.emb = NoVec, !.src = src,
                   !.result = [kind |-> "vec", vec |-> vec]]
    ELSE IF c.stage = 1
    THEN [c EXCEPT !.pc = "lru", !.stage = 2, !.text = c.jd, !.rvec = vec,
                   !.emb = NoVec, !.src = "none"]
    ELSE [c EXCEPT !.pc = "returned", !.emb = NoVec, !.src = src,
                   !.result = MatchResult(c.resume, c.jd, c.rvec, vec)]


\* OnProviderError with the exception swallowed: the call returns a zero score
OnProviderErrorSwallowed(c) ==
    [c EXCEPT !.pc = "returned", !.emb = NoVec,
              !.result = [kind |-> "match", overall_score |-> RInt(0),
                          semantic_similarity |-> RInt(0), skill_match_percentage |-> RInt(0),
                          matched_skills |-> << >>, total_skills |-> 0,
                          matched_skills_count |-> 0]]

\* the provider raised inside get_embedding: logged and re-raised there, and
\* logged and re-raised again by calculate_match_score
OnProviderError(c) ==
    [c EXCEPT !.pc = "raised", !.emb = NoVec, !.result = NoResult]

WriteFile(d, path, content) ==
    [p \in (DOMAIN d) \cup {path} |-> IF p = path THEN content ELSE d[p]]

Count(k) == IF k \in DOMAIN computed THEN computed[k] ELSE 0

(***************************************************************************)
(* Actions of the matcher.                                                 *)
(***************************************************************************)
MatcherStart ==
    /\ lru = << >>
    /\ disk = << >>
    /\ thr = [t \in Threads |-> IdleThread]
    /\ computed = << >>
    /\ started = 0

\* a caller invokes ranker.get_embedding(text)
StartGetEmbedding(t, m, text) ==
    /\ thr[t].pc = "idle"
    /\ started < MaxRequests
    /\ thr' = [thr EXCEPT ![t] = [IdleThread EXCEPT !.pc = "lru", !.op = "ge",
                                                    !.ranker = m, !.text = text]]
    /\ started' = started + 1
    /\ UNCHANGED <<lru, disk, computed, evalVars, sessionVars>>

\* a caller invokes calculate_match_score(resume_data, job_description) of the
\* singleton: the profile is built and get_embedding(resume_profile) entered
StartMatch(t, rd, jd) ==
    /\ t \in MatchCallers
    /\ thr[t].pc = "idle"
    /\ started < MaxRequests
    /\ thr' = [thr EXCEPT ![t] = [IdleThread EXCEPT !.pc = "lru", !.op = "match",
                                                    !.stage = 1, !.resume = rd, !.jd = jd,
                                                    !.text = ResumeProfile(rd)]]
    /\ started' = started + 1
    /\ UNCHANGED <<lru, disk, computed, evalVars, sessionVars>>

\* lru_cache wrapper: the key is cached
LruHit(t) ==
    LET c == thr[t]
        k == LruKey(c.ranker, c.text)
    IN  /\ c.pc = "lru"
        /\ LruHas(lru, k)
        /\ lru' = LruTouch(lru, k)
        /\ thr' = [thr EXCEPT ![t] = Deliver(c, LruGet(lru, k), "lru")]
        /\ UNCHANGED <<disk, computed, started, evalVars, sessionVars>>

\* lru_cache wrapper: a miss, the wrapped function is called
LruMiss(t) ==
    LET c == thr[t]
    IN  /\ c.pc = "lru"
        /\ ~LruHas(lru, LruKey(c.ranker, c.text))
        /\ thr' = [thr EXCEPT ![t].pc = "exists"]
        /\ UNCHANGED <<lru, disk, computed, started, evalVars, sessionVars>>

\* if cache_path.exists():
CacheExists(t) ==
    LET c == thr[t]
    IN  /\ c.pc = "exists"
        /\ thr' = [thr EXCEPT ![t].pc =
                      IF _get_cache_path(c.ranker, c.text) \in DOMAIN disk
                      THEN "load" ELSE "encode"]
        /\ UNCHANGED <<lru, disk, computed, started, evalVars, sessionVars>>

\* embedding = np.load(cache_path); return embedding
LoadOk(t) ==
    LET c == thr[t]
        path == _get_cache_path(c.ranker, c.text)
    IN  /\ c.pc = "load"
        /\ disk[path] # Partial
        /\ thr' = [thr EXCEPT ![t].pc = "ret", ![t].emb = disk[path], ![t].src = "disk"]
        /\ UNCHANGED <<lru, disk, computed, started, evalVars, sessionVars>>

\* np.load raises on a file that is not completely written: warning, fall through
LoadFail(t) ==
    LET c == thr[t]
        path == _get_cache_path(c.ranker, c.text)
    IN  /\ c.pc = "load"
        /\ disk[path] = Partial
        /\ thr' = [thr EXCEPT ![t].pc = "encode"]
        /\ UNCHANGED <<lru, disk, computed, started, evalVars, sessionVars>>

\* embedding = self.model.encode(text, convert_to_tensor=False)
EncodeOk(t) ==
    LET c == thr[t]
        k == LruKey(c.ranker, c.text)
    IN  /\ c.pc = "encode"
        /\ thr' = [thr EXCEPT ![t].pc = "save", ![t].emb = Encode(c.ranker, c.text),
                              ![t].src = "provider"]
        /\ computed' = [q \in (DOMAIN computed) \cup {k} |-> IF q = k THEN Count(k) + 1 ELSE computed[q]]
        /\ UNCHANGED <<lru, disk, started, evalVars, sessionVars>>

\* self.model.encode raises
EncodeFail(t) ==
    LET c == thr[t]
    IN  /\ c.pc = "encode"
        /\ thr' = [thr EXCEPT ![t] = OnProviderError([c EXCEPT !.failed = TRUE])]
        /\ UNCHANGED <<lru, disk, computed, started, evalVars, sessionVars>>

\* np.save(cache_path, embedding): the file is created or truncated
SaveOpen(t) ==
    LET c == thr[t]
    IN  /\ c.pc = "save"
        /\ disk' = WriteFile(disk, _get_cache_path(c.ranker, c.text), Partial)
        /\ thr' = [thr EXCEPT ![t].pc = "saving"]
        /\ UNCHANGED <<lru, computed, started, evalVars, sessionVars>>

\* np.save(cache_path, embedding): the array is written
SaveWrite(t) ==
    LET c == thr[t]
    IN  /\ c.pc = "saving"
        /\ disk' = WriteFile(disk, _get_cache_path(c.ranker, c.text), c.emb)
        /\ thr' = [thr EXCEPT ![t].pc = "ret"]
        /\ UNCHANGED <<lru, computed, started, evalVars, sessionVars>>

\* return embedding: the wrapper stores the result and hands it to the caller
Return(t) ==
    LET c == thr[t]
    IN  /\ c.pc = "ret"
        /\ lru' = LruInsert(lru, LruKey(c.ranker, c.text), c.emb)
        /\ thr' = [thr EXCEPT ![t] = Deliver(c, c.emb, c.src)]
        /\ UNCHANGED <<disk, computed, started, evalVars, sessionVars>>

\* the caller has taken the outcome of its call
Finish(t) ==
    /\ thr[t].pc \in {"returned", "raised"}
    /\ thr' = [thr EXCEPT ![t] = IdleThread]
    /\ UNCHANGED <<lru, disk, computed, started, evalVars, sessionVars>>

MatcherNext ==
    \E t \in Threads :
        \/ \E m \in Rankers, text \in TextInputs : StartGetEmbedding(t, m, text)
        \/ \E rd \in ResumeInputs, jd \in JobInputs : StartMatch(t, rd, jd)
        \/ LruHit(t)
        \/ LruMiss(t)
        \/ CacheExists(t)
        \/ LoadOk(t)
        \/ LoadFail(t)
        \/ EncodeOk(t)
        \/ EncodeFail(t)
        \/ SaveOpen(t)
        \/ SaveWrite(t)
        \/ Return(t)
        \/ Finish(t)

(***************************************************************************)
(* Calls of the evaluator.                                                 *)
(***************************************************************************)
NoCall == [status |-> "none"]

\* responses, by what evaluate_response_comprehensively reads of them; a
\* response that contains "nosql" contains "sql", one that contains
\* "resolved" contains "solved"
RespBlank ==
    [word_count |-> 0, sentence_count |-> 0, unique_words |-> 0, phrases |-> {}]

RespBrief ==
    [word_count |-> 10, sentence_count |-> 1, unique_words |-> 9, phrases |-> {"api"}]

RespKeywordRich ==
    [word_count |-> 30, sentence_count |-> 2, unique_words |-> 28,
     phrases |-> {technical_keywords.programming[i] : i \in 1..Len(technical_keywords.programming)}
                 \cup {technical_keywords.web_development[i] : i \in 1..Len(technical_keywords.web_development)}
                 \cup {"for example", "improved", "managed", "fixed"}]

RespMedium ==
    [word_count |-> 45, sentence_count |-> 3, unique_words |-> 30,
     phrases |-> {"nosql", "sql", "led a team"}]

RespLong ==
    [word_count |-> 60, sentence_count |-> 4, unique_words |-> 40,
     phrases |-> {"docker", "aws", "resolved", "solved"}]

ResponseInputs == {RespBlank, RespBrief, RespKeywordRich, RespMedium, RespLong}

CategoryInputs == {"technical", "behavioral"}

\* an optional value: << >> when the key is missing, <<v>> when it is given
Missing == << >>

\* a dictionary holding only the keys that are given
Entry(key, opt) == IF opt = Missing THEN << >> ELSE key :> RInt(opt[1])

AiDict(overall, depth, clarity) ==
    Entry("overall_score", overall) @@ Entry("technical_depth", depth)
        @@ Entry("communication_clarity", clarity)

\* external evaluations as the evaluator may be handed them: complete,
\* partial, out of range, or None
AiInputs ==
    {None} \cup
    {AiDict(o, d, c) : o \in {Missing, <<-3>>, <<1>>, <<6>>, <<9>>, <<10>>, <<20>>},
                       d \in {Missing, <<2>>, <<5>>},
                       c \in {Missing, <<4>>}}

\* no rule-based scoring and no aggregation has been asked for
ScoringIdle ==
    /\ ruleLog = << >>
    /\ aggIn = << >>
    /\ aggOut = NoCall
    /\ aggInsights = NoCall
    /\ aggAgain = << >>

EvalStart ==
    /\ evalIn = NoCall
    /\ evalOut = NoCall
    /\ ScoringIdle

\* a caller invokes evaluator.evaluate_response_comprehensively(...)
EvaluateResponse(response, category, ai_evaluation) ==
    /\ evalIn' = [status |-> "called", response |-> response, category |-> category,
                  ai_evaluation |-> ai_evaluation]
    /\ evalOut' = evaluate_response_comprehensively(response, category, ai_evaluation)
    /\ UNCHANGED <<ruleLog, aggIn, aggOut, aggInsights, aggAgain, matcherVars, sessionVars>>

EvalNext ==
    \E response \in ResponseInputs, category \in CategoryInputs, ai \in AiInputs :
        EvaluateResponse(response, category, ai)

(***************************************************************************)
(* Calls of the rule-based scoring.                                        *)
(***************************************************************************)
\* longest response, in words, the rule-based scoring is applied to
MaxWordCount == 62

\* responses of every length up to MaxWordCount, without and with content
\* the keyword tables react to
RuleResponses ==
    {[word_count |-> w, sentence_count |-> IntMin(w, 1), unique_words |-> IntMin(w, 1),
      phrases |-> p] : w \in 0..MaxWordCount, p \in {{}, {"api", "improved"}}}

\* a caller invokes evaluator._calculate_rule_based_scores(response, category);
\* ruleLog keeps two calls, which is what comparing two responses takes
CalculateRuleBasedScores(response) ==
    LET call == [response |-> response, scores |-> _calculate_rule_based_scores(response)]
    IN  /\ Len(ruleLog) < 2
        /\ ruleLog' = Append(ruleLog, call)
        /\ UNCHANGED <<evalIn, evalOut, aggIn, aggOut, aggInsights, aggAgain, matcherVars, sessionVars>>

RuleNext == \E response \in RuleResponses : CalculateRuleBasedScores(response)

(***************************************************************************)
(* Sessions.                                                               *)
(***************************************************************************)
\* number of sessions created in one behaviour
MaxSessions == 2

\* the import block at the top of voice_interview_api.py sets each flag once
ModuleStates ==
    {[parser |-> p, matcher |-> m, reporter |-> FALSE, evaluator |-> TRUE] : p, m \in BOOLEAN}

CandidateA ==
    [name |-> <<"A">>, email |-> <<"a">>, skills |-> <<Aws, Py>>, organizations |-> <<Sap>>]

CandidateB ==
    [name |-> <<"S">>, email |-> <<"s">>, skills |-> << >>, organizations |-> << >>]

\* an uploaded resume, by what text extraction and entity extraction make of it
ResumeFiles ==
    {None,
     [extraction |-> "raises", entities |-> None],
     [extraction |-> "empty", entities |-> None],
     [extraction |-> "ok", entities |-> CandidateA],
     [extraction |-> "ok", entities |-> CandidateB]}

SessionJobInputs == {JobEmpty, JobPyDev}

NameInputs == {"", "Asha"}

\* main.py admits 3..10 questions
QuestionCounts == {3, 4}

SessionStart ==
    /\ MODULES_STATUS \in ModuleStates
    /\ active_sessions = << >>
    /\ ai_available \in BOOLEAN
    /\ apiOut = NoCall
    /\ last_report = NoCall
    /\ ai_log = << >>

SessionIdle ==
    /\ MODULES_STATUS = [parser |-> TRUE, matcher |-> TRUE, reporter |-> FALSE, evaluator |-> TRUE]
    /\ active_sessions = << >>
    /\ ai_available = TRUE
    /\ apiOut = NoCall
    /\ last_report = NoCall
    /\ ai_log = << >>

\* VoiceInterviewAPI.create_session(session_data, resume_file)
create_session(job_description, candidate_name, num_questions, resume_file) ==
    LET session_id == Len(active_sessions) + 1
        processed == ProcessResume(job_description, resume_file, MODULES_STATUS)
        session ==
            [session_id |-> session_id,
             candidate_name |-> IF candidate_name = "" THEN "Anonymous Candidate" ELSE candidate_name,
             job_description |-> job_description,
             status |-> "active",
             current_question |-> 0,
             total_questions |-> num_questions,
             candidate_data |-> processed.candidate_data,
             resume_match_score |-> processed.resume_match_score,
             resume_processing_log |-> processed.resume_processing_log,
             questions_asked |-> << >>,
             responses |-> << >>]
    IN  /\ Len(active_sessions) < MaxSessions
        /\ active_sessions' = Append(active_sessions, session)
        /\ apiOut' = [op |-> "create_session", status |-> "created", session_id |-> session_id]
        /\ UNCHANGED <<MODULES_STATUS, ai_available, last_report, ai_log, matcherVars, evalVars>>

SessionNext ==
    \E jd \in SessionJobInputs, name \in NameInputs, n \in QuestionCounts, file \in ResumeFiles :
        create_session(jd, name, n, file)

(***************************************************************************)
(* VoiceInterviewAPI: questions, responses and their evaluation.           *)
(***************************************************************************)
\* seq[:n]
Take(seq, n) == SubSeq(seq, 1, IF Len(seq) < n THEN Len(seq) ELSE n)

\* any(word in response.lower() for word in words)
ContainsAny(response, words) == \E w \in words : w \in response.phrases

\* max(lo, min(hi, evaluation.get(key, default)))
Constrained(evaluation, key, lo, hi, default) ==
    RMax(RInt(lo), RMin(RInt(hi), Get(evaluation, key, RInt(default))))

\* _evaluate_with_ai when self.ai_available is False
BasicFallbackEvaluation(response) ==
    [overall_score |-> RInt(IntMin(7, IntMax(3, 3 + (response.word_count \div 20)))),
     technical_depth |-> RInt(3),
     communication_clarity |-> RInt(3),
     relevance_to_role |-> RInt(3),
     specific_examples |-> RInt(IF ContainsAny(response, {"example", "project"}) THEN 2 ELSE 1),
     strengths |-> <<"Provided response">>,
     improvements |-> <<"Could provide more detail">>,
     brief_feedback |-> "Thank you for your response."]

\* the except branch of _evaluate_with_ai
EnhancedFallbackEvaluation(response) ==
    LET word_count == response.word_count
        has_examples ==
            ContainsAny(response, {"example", "project", "experience", "when i", "i worked"})
        has_technical_terms ==
            ContainsAny(response, {"algorithm", "database", "api", "framework", "architecture"})
    IN  [overall_score |->
            RInt(IntMin(8, IntMax(3, 4 + (word_count \div 30)
                                       + (IF has_examples THEN 2 ELSE 0)
                                       + (IF has_technical_terms THEN 1 ELSE 0)))),
         technical_depth |-> RInt(IF has_technical_terms THEN 4 ELSE 3),
         communication_clarity |-> RInt(IF word_count > 50 THEN 4 ELSE 3),
         relevance_to_role |-> RInt(IF word_count > 40 THEN 4 ELSE 3),
         specific_examples |-> RInt(IF has_examples THEN 4 ELSE 2),
         problem_solving_approach |-> RInt(3),
         strengths |-> <<IF word_count > 50 THEN "Provided detailed response"
                         ELSE "Addressed the question">>,
         improvements |-> <<IF ~has_examples THEN "Could include more specific examples"
                            ELSE "Could provide more technical depth">>,
         technical_keywords_used |-> << >>,
         demonstrates_experience |-> has_examples,
         shows_leadership |-> ContainsAny(response, {"lead", "manage"}),
         mentions_metrics |-> "<digit>" \in response.phrases,
         brief_feedback |-> "Thank you for sharing your experience. Consider providing more specific examples and technical details."]

\* the try branch of _evaluate_with_ai once json.loads has produced a dictionary
ValidatedEvaluation(evaluation) ==
    [overall_score |-> Constrained(evaluation, "overall_score", 1, 10, 5),
     technical_depth |-> Constrained(evaluation, "technical_depth", 1, 5, 3),
     communication_clarity |-> Constrained(evaluation, "communication_clarity", 1, 5, 3),
     relevance_to_role |-> Constrained(evaluation, "relevance_to_role", 1, 5, 3),
     specific_examples |-> Constrained(evaluation, "specific_examples", 1, 5, 2),
     problem_solving_approach |-> Constrained(evaluation, "problem_solving_approach", 1, 5, 3),
     strengths |-> Take(Get(evaluation, "strengths", <<"Provided response">>), 3),
     improvements |-> Take(Get(evaluation, "improvements", <<"Could provide more detail">>), 3),
     technical_keywords_used |-> Take(Get(evaluation, "technical_keywords_used", << >>), 5),
     brief_feedback |-> Get(evaluation, "brief_feedback", "Thank you for your response.")]
        @@ evaluation

\* _evaluate_with_ai(question, response, category); reply is what the call of
\* the external model came to: it raised, its text held no {...}, the text
\* between the braces was not JSON, or it parsed to a dictionary
_evaluate_with_ai(available, response, reply) ==
    IF ~available THEN BasicFallbackEvaluation(response)
    ELSE IF reply.kind = "json" THEN ValidatedEvaluation(reply.value)
    ELSE EnhancedFallbackEvaluation(response)

\* session["question_flow"]
question_flow ==
    <<"introduction", "technical", "behavioral", "problem_solving", "role_specific",
      "introduction", "technical", "behavioral", "problem_solving", "role_specific">>

HTTPException(op, code) == [op |-> op, status |-> "error", status_code |-> code]

\* the branch of generate_question that ends the interview
CompleteInterview(session_id) ==
    LET session == active_sessions[session_id]
    IN  /\ active_sessions' = [active_sessions EXCEPT ![session_id].status = "completed"]
        /\ apiOut' = [op |-> "generate_question", status |-> "interview_completed",
                      responses_collected |-> Len(session.responses)]

\* the branch of generate_question that asks the next question; category ""
\* is the default None.  Question texts are left out, ids are fresh per question.
AskQuestion(session_id, category) ==
    LET session == active_sessions[session_id]
        current_q_num == session.current_question
        chosen == IF category # "" THEN category
                  ELSE IF current_q_num < Len(question_flow) THEN question_flow[current_q_num + 1]
                  ELSE IF current_q_num % 2 = 0 THEN "technical" ELSE "behavioral"
        question_obj ==
            [question_id |-> <<session_id, current_q_num + 1>>,
             category |-> chosen,
             question_number |-> current_q_num + 1,
             personalization_used |-> ~IsNone(session.candidate_data),
             ai_generated |-> ai_available]
    IN  /\ active_sessions' =
                [active_sessions EXCEPT
                    ![session_id].questions_asked = Append(@, question_obj),
                    ![session_id].current_question = current_q_num + 1]
        /\ apiOut' = [op |-> "generate_question", status |-> "question",
                      question_id |-> question_obj.question_id,
                      category |-> chosen,
                      question_number |-> current_q_num + 1,
                      remaining_questions |-> session.total_questions - (current_q_num + 1),
                      total_questions |-> session.total_questions]

\* generate_question that goes past the planned number of questions by one
GenerateQuestionOneTooMany(session_id, category) ==
    IF session_id \notin DOMAIN active_sessions
    THEN /\ apiOut' = HTTPException("generate_question", 404)
         /\ UNCHANGED active_sessions
    ELSE IF active_sessions[session_id].status # "active"
    THEN /\ apiOut' = HTTPException("generate_question", 400)
         /\ UNCHANGED active_sessions
    ELSE IF active_sessions[session_id].current_question
                > active_sessions[session_id].total_questions
    THEN CompleteInterview(session_id)
    ELSE AskQuestion(session_id, category)

\* generate_question without the check of the session's status
GenerateQuestionWhateverStatus(session_id, category) ==
    IF session_id \notin DOMAIN active_sessions
    THEN /\ apiOut' = HTTPException("generate_question", 404)
         /\ UNCHANGED active_sessions
    ELSE IF active_sessions[session_id].current_question
                >= active_sessions[session_id].total_questions
    THEN CompleteInterview(session_id)
    ELSE AskQuestion(session_id, category)

\* generate_question that reports the end of the interview and leaves the
\* status as it is
GenerateQuestionLeavingStatus(session_id, category) ==
    IF session_id \notin DOMAIN active_sessions
    THEN /\ apiOut' = HTTPException("generate_question", 404)
         /\ UNCHANGED active_sessions
    ELSE IF active_sessions[session_id].status # "active"
    THEN /\ apiOut' = HTTPException("generate_question", 400)
         /\ UNCHANGED active_sessions
    ELSE IF active_sessions[session_id].current_question
                >= active_sessions[session_id].total_questions
    THEN /\ apiOut' = [op |-> "generate_question", status |-> "interview_completed",
                       responses_collected |-> Len(active_sessions[session_id].responses)]
         /\ UNCHANGED active_sessions
    ELSE AskQuestion(session_id, category)

\* VoiceInterviewAPI.generate_question(session_id, category)
generate_question(session_id, category) ==
    IF session_id \notin DOMAIN active_sessions
    THEN /\ apiOut' = HTTPException("generate_question", 404)
         /\ UNCHANGED active_sessions
    ELSE IF active_sessions[session_id].status # "active"
    THEN /\ apiOut' = HTTPException("generate_question", 400)
         /\ UNCHANGED active_sessions
    ELSE IF active_sessions[session_id].current_question
                >= active_sessions[session_id].total_questions
    THEN CompleteInterview(session_id)
    ELSE AskQuestion(session_id, category)

\* FindQuestion that settles for the question asked last when no id matches
FindQuestionOrLast(session, question_id) ==
    LET hits == {i \in 1..Len(session.questions_asked) :
                    session.questions_asked[i].question_id = question_id}
    IN  IF hits # {} THEN session.questions_asked[CHOOSE i \in hits : \A j \in hits : i <= j]
        ELSE IF Len(session.questions_asked) > 0
        THEN session.questions_asked[Len(session.questions_asked)]
        ELSE None

\* the question of session["questions_asked"] with the given id, else None
FindQuestion(session, question_id) ==
    LET hits == {i \in 1..Len(session.questions_asked) :
                    session.questions_asked[i].question_id = question_id}
    IN  IF hits = {} THEN None
        ELSE session.questions_asked[CHOOSE i \in hits : \A j \in hits : i <= j]

\* comprehensive_evaluation of submit_response: the evaluator's result when the
\* evaluator module is there and does not raise, else the AI evaluation
ComprehensiveOrAi(modules, response, category, ai_evaluation) ==
    LET advanced == evaluate_response_comprehensively(response, category, ai_evaluation)
    IN  IF modules.evaluator /\ advanced.status = "ok" THEN advanced.eval ELSE ai_evaluation

\* response_obj of submit_response; audio_duration, submitted_at, the question
\* text and character_count are left out
ResponseObj(question_id, question, response, comprehensive_evaluation, ai_evaluation) ==
    [question_id |-> question_id,
     response_text |-> response,
     category |-> question.category,
     question_number |-> question.question_number,
     evaluation |-> comprehensive_evaluation,
     ai_evaluation |-> ai_evaluation,
     response_analytics |->
        [word_count |-> response.word_count,
         estimated_speaking_time |-> Rat(response.word_count, 2),
         response_completeness |-> RMin(RInt(1), Rat(response.word_count, 50))]]

\* number of responses one session takes in the model
MaxResponses == 2

\* VoiceInterviewAPI.submit_response(response_data); audio_duration, the
\* timestamps and the randomly chosen feedback sentence are left out
submit_response(session_id, question_id, response, reply) ==
    IF session_id \notin DOMAIN active_sessions
    THEN /\ apiOut' = HTTPException("submit_response", 404)
         /\ UNCHANGED <<active_sessions, ai_log>>
    ELSE LET session == active_sessions[session_id]
             question == FindQuestion(session, question_id)
         IN  IF IsNone(question)
             THEN /\ apiOut' = HTTPException("submit_response", 400)
                  /\ UNCHANGED <<active_sessions, ai_log>>
             ELSE LET ai_evaluation == _evaluate_with_ai(ai_available, response, reply)
                      comprehensive_evaluation ==
                          ComprehensiveOrAi(MODULES_STATUS, response, question.category, ai_evaluation)
                      response_obj ==
                          ResponseObj(question_id, question, response,
                                      comprehensive_evaluation, ai_evaluation)
                      score == Get(comprehensive_evaluation, "final_overall_score",
                                   Get(comprehensive_evaluation, "overall_score", RInt(5)))
                  IN  /\ Len(session.responses) < MaxResponses
                      /\ active_sessions' =
                            [active_sessions EXCEPT ![session_id].responses = Append(@, response_obj)]
                      /\ ai_log' = Append(ai_log,
                            [session_id |-> session_id,
                             position |-> Len(session.responses) + 1,
                             available |-> ai_available,
                             reply |-> IF ai_available THEN reply ELSE [kind |-> "not_called"]])
                      /\ apiOut' =
                            [op |-> "submit_response", status |-> "response_recorded",
                             overall_score |-> score,
                             technical_depth |-> Get(comprehensive_evaluation, "technical_depth", RInt(3)),
                             next_action |-> IF session.current_question < session.total_questions
                                             THEN "continue" ELSE "complete",
                             current |-> session.current_question,
                             total |-> session.total_questions]

\* end_interview_session that clears the collected responses as its cleanup
EndSessionClearingResponses(session_id) ==
    IF session_id \in DOMAIN active_sessions
    THEN /\ active_sessions' = [active_sessions EXCEPT ![session_id].status = "completed",
                                                       ![session_id].responses = << >>]
         /\ apiOut' = [op |-> "end_interview_session", status |-> "completed",
                       session_id |-> session_id,
                       questions_answered |-> Len(active_sessions[session_id].responses),
                       total_planned |-> active_sessions[session_id].total_questions]
    ELSE /\ apiOut' = HTTPException("end_interview_session", 404)
         /\ UNCHANGED active_sessions

\* end_interview_session(session_id) of main.py: the session stays in
\* active_sessions; completed_at, a copy of created_at, is left out
end_interview_session(session_id) ==
    IF session_id \in DOMAIN active_sessions
    THEN /\ active_sessions' = [active_sessions EXCEPT ![session_id].status = "completed"]
         /\ apiOut' = [op |-> "end_interview_session", status |-> "completed",
                       session_id |-> session_id,
                       questions_answered |-> Len(active_sessions[session_id].responses),
                       total_planned |-> active_sessions[session_id].total_questions]
    ELSE /\ apiOut' = HTTPException("end_interview_session", 404)
         /\ UNCHANGED active_sessions

\* _calculate_performance_metrics(responses) for a list that is not empty;
\* the figures rounded to one or two decimals are left out
_calculate_performance_metrics(responses) ==
    LET overall_scores ==
            [i \in 1..Len(responses) |-> Get(responses[i].evaluation, "overall_score", RInt(5))]
        avg_overall == RDiv(RSum(overall_scores), RInt(Len(overall_scores)))
        Within(lo, hi) ==
            Cardinality({i \in 1..Len(overall_scores) :
                            RLe(RInt(lo), overall_scores[i]) /\ RLt(overall_scores[i], RInt(hi))})
        verdict ==
            IF RLe(RInt(8), avg_overall) THEN <<"Strong Hire", "High">>
            ELSE IF RLe(RInt(7), avg_overall) THEN <<"Hire", "High">>
            ELSE IF RLe(RInt(6), avg_overall) THEN <<"Hire", "Medium">>
            ELSE IF RLe(RInt(5), avg_overall) THEN <<"Maybe", "Medium">>
            ELSE <<"Pass", "High">>
    IN  [score_distribution |->
            [excellent_responses |-> Within(8, 11),
             good_responses |-> Within(6, 8),
             average_responses |-> Within(4, 6),
             weak_responses |-> Within(0, 4)],
         recommendation |-> verdict[1],
         confidence_level |-> verdict[2]]

\* advanced_analytics computed from the responses without the latest one
AdvancedAnalyticsOfEarlierResponses(modules, responses) ==
    IF modules.evaluator
    THEN LET aggregate_scores ==
                calculate_interview_aggregate_scores(Take(responses, Len(responses) - 1))
         IN  [insights |-> generate_scoring_insights(aggregate_scores)] @@ aggregate_scores
    ELSE << >>

\* advanced_analytics of generate_final_report: the aggregate report with
\* its insights, or the empty dictionary without the evaluator module
AdvancedAnalytics(modules, responses) ==
    IF modules.evaluator
    THEN LET aggregate_scores == calculate_interview_aggregate_scores(responses)
         IN  [insights |-> generate_scoring_insights(aggregate_scores)] @@ aggregate_scores
    ELSE << >>

\* VoiceInterviewAPI.generate_final_report(session_id): what it returns or
\* raises.  Of the report, the sections on the resume, the response analysis,
\* the qualitative and final assessment and the timestamps are left out.
generate_final_report(session_id) ==
    IF session_id \notin DOMAIN active_sessions
    THEN HTTPException("generate_final_report", 404)
    ELSE LET session == active_sessions[session_id]
             responses == session.responses
         IN  IF Len(responses) = 0
             THEN [op |-> "generate_final_report", status |-> "insufficient_data",
                   session_id |-> session_id]
             ELSE [op |-> "generate_final_report", status |-> "report",
                   session_metadata |->
                        [session_id |-> session_id,
                         questions_answered |-> Len(responses),
                         total_questions_planned |-> session.total_questions],
                   performance_metrics |-> _calculate_performance_metrics(responses),
                   advanced_analytics |-> AdvancedAnalytics(MODULES_STATUS, responses),
                   detailed_responses |-> responses]

\* get_interview_report(session_id) of main.py: the report is generated and
\* rendered as the response body before the handler gives up control, so the
\* body holds the response list as it is at that moment.  apiOut keeps the
\* outcome, last_report the body the client received.
get_interview_report(session_id) ==
    \E result \in {generate_final_report(session_id)} :
        /\ apiOut' = [op |-> "generate_final_report", status |-> result.status]
                        @@ (IF result.status = "error" THEN result ELSE << >>)
        /\ last_report' = IF result.status = "report" THEN result ELSE last_report
        /\ UNCHANGED active_sessions

\* what a candidate may say: a few words, or a long answer with an example,
\* a technical term, a figure and a word of leadership
SaidLittle ==
    [word_count |-> 8, sentence_count |-> 1, unique_words |-> 8, phrases |-> {}]

SaidMuch ==
    [word_count |-> 62, sentence_count |-> 4, unique_words |-> 45,
     phrases |-> {"for example", "example", "database", "managed", "manage", "<digit>"}]

InterviewResponses == {SaidLittle, SaidMuch}

\* what the external model may come to
ReplyInputs ==
    {[kind |-> "raises"], [kind |-> "bad_json"],
     [kind |-> "json", value |-> AiDict(<<20>>, Missing, <<4>>)]}

\* the replies _evaluate_with_ai cannot parse
MalformedKinds == {"no_json", "bad_json"}

InterviewSessionIds == {1, 2}

InterviewQuestionIds == {<<1, 1>>, <<1, 2>>}

InterviewCategories == {"", "technical"}

\* one interview: the session is created once, then questions are asked for
\* and responses submitted in any order
CreateInterview ==
    /\ active_sessions = << >>
    /\ create_session(JobEmpty, "", 3, None)

GenerateQuestion(session_id, category) ==
    /\ generate_question(session_id, category)
    /\ UNCHANGED <<MODULES_STATUS, ai_available, last_report, ai_log, matcherVars, evalVars>>

SubmitResponse(session_id, question_id, response, reply) ==
    /\ submit_response(session_id, question_id, response, reply)
    /\ UNCHANGED <<MODULES_STATUS, ai_available, last_report, matcherVars, evalVars>>

EndInterviewSession(session_id) ==
    /\ end_interview_session(session_id)
    /\ UNCHANGED <<MODULES_STATUS, ai_available, last_report, ai_log, matcherVars, evalVars>>

GetInterviewReport(session_id) ==
    /\ get_interview_report(session_id)
    /\ UNCHANGED <<MODULES_STATUS, ai_available, ai_log, matcherVars, evalVars>>

InterviewNext ==
    \/ CreateInterview
    \/ \E sid \in InterviewSessionIds, category \in InterviewCategories :
            GenerateQuestion(sid, category)
    \/ \E sid \in InterviewSessionIds, qid \in InterviewQuestionIds,
          response \in InterviewResponses, reply \in ReplyInputs :
            SubmitResponse(sid, qid, response, reply)

\* what the external model comes to in the life of one session: it fails, or
\* it replies with an evaluation
LifecycleReplies == {[kind |-> "raises"], [kind |-> "json", value |-> AiDict(<<7>>, <<4>>, <<4>>)]}

\* the questions follow the question flow of the session
LifecycleCategories == {""}

\* one session from its creation to its end: questions, responses, reports
\* and the end of the session, requested in any order
LifecycleNext ==
    \/ CreateInterview
    \/ \E sid \in InterviewSessionIds, category \in LifecycleCategories :
            GenerateQuestion(sid, category)
    \/ \E sid \in InterviewSessionIds, qid \in InterviewQuestionIds,
          response \in InterviewResponses, reply \in LifecycleReplies :
            SubmitResponse(sid, qid, response, reply)
    \/ \E sid \in InterviewSessionIds : EndInterviewSession(sid)
    \/ \E sid \in InterviewSessionIds : GetInterviewReport(sid)

(***************************************************************************)
(* Calls of the aggregate scoring.                                         *)
(***************************************************************************)
\* longest response list handed to the aggregate scoring
MaxListLen == 5

SaidWell ==
    [word_count |-> 60, sentence_count |-> 4, unique_words |-> 44,
     phrases |-> {"for example", "example", "improved", "led a team", "fixed"}]

SaidSome ==
    [word_count |-> 40, sentence_count |-> 3, unique_words |-> 30, phrases |-> {"solved"}]

JsonReply(overall, depth, clarity) ==
    [kind |-> "json", value |-> AiDict(<<overall>>, <<depth>>, <<clarity>>)]

\* what was answered to one question: the response, the category of the
\* question and the external model's reply
Answer(response, category, reply) ==
    [response |-> response, category |-> category, reply |-> reply]

\* answers as a process with the evaluator module records them
EvaluatedAnswers ==
    {Answer(SaidLittle, "introduction", JsonReply(1, 3, 4)),
     Answer(SaidSome, "technical", JsonReply(6, 4, 3)),
     Answer(SaidWell, "technical", JsonReply(10, 5, 4))}

\* answers as a process without the evaluator module records them: the
\* evaluation is the validated reply itself
PlainAnswers ==
    {Answer(SaidLittle, "behavioral", JsonReply(2, 2, 3)),
     Answer(SaidLittle, "behavioral", JsonReply(3, 2, 3)),
     Answer(SaidLittle, "introduction", JsonReply(4, 3, 3)),
     Answer(SaidMuch, "technical", JsonReply(8, 4, 4)),
     Answer(SaidMuch, "technical", JsonReply(9, 5, 4))}

\* session["responses"] after the answers were submitted, one per question
AsResponses(answers, modules) ==
    [i \in 1..Len(answers) |->
        LET question == [question_id |-> <<1, i>>, category |-> answers[i].category,
                         question_number |-> i]
            ai_evaluation == _evaluate_with_ai(TRUE, answers[i].response, answers[i].reply)
        IN  ResponseObj(question.question_id, question, answers[i].response,
                        ComprehensiveOrAi(modules, answers[i].response, answers[i].category,
                                          ai_evaluation),
                        ai_evaluation)]

SeqsUpTo(S, n) == UNION {[1..k -> S] : k \in 0..n}

ResponseLists ==
    {AsResponses(answers, [evaluator |-> TRUE]) : answers \in SeqsUpTo(EvaluatedAnswers, MaxListLen)}
    \cup {AsResponses(answers, [evaluator |-> FALSE]) : answers \in SeqsUpTo(PlainAnswers, MaxListLen)}

AggregateStart ==
    /\ evalIn = NoCall
    /\ evalOut = NoCall
    /\ ruleLog = << >>
    /\ aggIn \in ResponseLists
    /\ aggOut = NoCall
    /\ aggInsights = NoCall
    /\ aggAgain = << >>

\* a caller invokes evaluator.calculate_interview_aggregate_scores(aggIn)
CalculateAggregate ==
    /\ aggOut = NoCall
    /\ aggOut' = [status |-> "returned", report |-> calculate_interview_aggregate_scores(aggIn)]
    /\ UNCHANGED <<evalIn, evalOut, ruleLog, aggIn, aggInsights, aggAgain, matcherVars, sessionVars>>

\* and then evaluator.generate_scoring_insights(report)
GenerateInsights ==
    /\ aggOut # NoCall
    /\ aggInsights = NoCall
    /\ aggInsights' = [status |-> "returned", insights |-> generate_scoring_insights(aggOut.report)]
    /\ UNCHANGED <<evalIn, evalOut, ruleLog, aggIn, aggOut, aggAgain, matcherVars, sessionVars>>

\* number of calls of the aggregate scoring after the first
MaxRepeats == 2

\* the response list of another session, for which the one evaluator instance
\* is asked as well
OtherSessionResponses ==
    AsResponses(<<Answer(SaidMuch, "technical", JsonReply(9, 5, 4))>>, [evaluator |-> FALSE])

\* a later call as it would go if the evaluator collected the responses in
\* an attribute of its own that outlives the call
CalculateAggregateAgainCollecting(all_responses, list) ==
    LET earlier == IF aggAgain # << >> /\ aggAgain[Len(aggAgain)].list = "other"
                   THEN OtherSessionResponses ELSE aggIn
    IN  /\ aggInsights # NoCall
        /\ Len(aggAgain) < MaxRepeats
        /\ aggAgain' = Append(aggAgain,
                [list |-> list,
                 report |-> calculate_interview_aggregate_scores(earlier \o all_responses)])
        /\ UNCHANGED <<evalIn, evalOut, ruleLog, aggIn, aggOut, aggInsights, matcherVars, sessionVars>>

\* a later call evaluator.calculate_interview_aggregate_scores(all_responses),
\* for a further report once the first was made: the method reads its argument
\* and the keyword tables and assigns to locals only
CalculateAggregateAgain(all_responses, list) ==
    /\ aggInsights # NoCall
    /\ Len(aggAgain) < MaxRepeats
    /\ aggAgain' = Append(aggAgain,
            [list |-> list, report |-> calculate_interview_aggregate_scores(all_responses)])
    /\ UNCHANGED <<evalIn, evalOut, ruleLog, aggIn, aggOut, aggInsights, matcherVars, sessionVars>>

\* the same list once more
RepeatAggregate == CalculateAggregateAgain(aggIn, "same")

\* the list of another session in between
AggregateOtherSession == CalculateAggregateAgain(OtherSessionResponses, "other")

AggregateNext ==
    \/ CalculateAggregate
    \/ GenerateInsights
    \/ RepeatAggregate
    \/ AggregateOtherSession

(***************************************************************************)
(* Specifications.                                                         *)
(***************************************************************************)
MatcherInit == MatcherStart /\ EvalStart /\ SessionIdle

\* the embedding cache and the matcher under concurrent callers
SpecMatcher == MatcherInit /\ [][MatcherNext]_vars

EvalInit == MatcherStart /\ EvalStart /\ SessionIdle

\* the response evaluator applied to its inputs
SpecEval == EvalInit /\ [][EvalNext]_vars

SessionInit == MatcherStart /\ EvalStart /\ SessionStart

\* the session orchestrator
SpecSession == SessionInit /\ [][SessionNext]_vars

RuleInit == MatcherStart /\ EvalStart /\ SessionIdle

\* the rule-based scoring applied to responses of growing and shrinking length
SpecRule == RuleInit /\ [][RuleNext]_vars

AggregateInit == MatcherStart /\ AggregateStart /\ SessionIdle

\* the aggregate scoring applied to response lists
SpecAggregate == AggregateInit /\ [][AggregateNext]_vars

InterviewInit ==
    /\ MatcherStart
    /\ EvalStart
    /\ MODULES_STATUS = [parser |-> TRUE, matcher |-> TRUE, reporter |-> FALSE, evaluator |-> TRUE]
    /\ active_sessions = << >>
    /\ ai_available \in BOOLEAN
    /\ apiOut = NoCall
    /\ last_report = NoCall
    /\ ai_log = << >>

\* one interview session from its creation on
SpecInterview == InterviewInit /\ [][InterviewNext]_vars

LifecycleInit == MatcherStart /\ EvalStart /\ SessionIdle

\* the state machine of one session
SpecLifecycle == LifecycleInit /\ [][LifecycleNext]_vars

\* the client of the session keeps asking for the next question: a request
\* for it that would change something is not put off forever
ClientKeepsAsking == WF_vars(\E category \in LifecycleCategories : GenerateQuestion(1, category))

\* the state machine of one session whose client keeps asking
SpecLifecycleFair == LifecycleInit /\ [][LifecycleNext]_vars /\ ClientKeepsAsking

(***************************************************************************)
(* Properties of the matcher (SpecMatcher).                                *)
(***************************************************************************)
MatchReturned(t) == thr[t].pc = "returned" /\ thr[t].op = "match"

InRange(lo, hi, x) == RLe(RInt(lo), x) /\ RLe(x, RInt(hi))

\* C1: every returned MatchResult has overall_score =
\* clamp(0, 100, 0.7*semantic_similarity + 0.3*skill_match_percentage), taken
\* from the semantic_similarity and skill_match_percentage of the same result
C1_OverallScoreIsBlend ==
    \A t \in Threads :
        MatchReturned(t) =>
            LET r == thr[t].result
            IN  r.overall_score =
                    RClamp(RInt(0), RInt(100),
                           RAdd(RMul(Rat(7, 10), r.semantic_similarity),
                                RMul(Rat(3, 10), r.skill_match_percentage)))

\* C2: overall_score, skill_match_percentage and semantic_similarity of every
\* returned MatchResult lie in [0,100]; a negative cosine gives similarity 0
C2_ScoresInRange ==
    \A t \in Threads :
        MatchReturned(t) =>
            LET r == thr[t].result
            IN  /\ InRange(0, 100, r.overall_score)
                /\ InRange(0, 100, r.skill_match_percentage)
                /\ InRange(0, 100, r.semantic_similarity)

\* the number of skills that occur case-insensitively in the job description
SkillsPresent(skills, jd) ==
    Cardinality({i \in 1..Len(skills) : IsSubstring(Lower(skills[i]), Lower(jd))})

\* C3: skill_match_percentage = 100 * (skills present case-insensitively as a
\* substring of the job description) / max(1, number of skills),
\* matched_skills_count is that numerator, total_skills the number of skills,
\* and an empty skills list gives 0
C3_SkillMatchPercentage ==
    \A t \in Threads :
        MatchReturned(t) =>
            LET r == thr[t].result
                skills == thr[t].resume.skills
                present == SkillsPresent(skills, thr[t].jd)
            IN  /\ r.skill_match_percentage = Rat(100 * present, IntMax(1, Len(skills)))
                /\ r.matched_skills_count = present
                /\ r.total_skills = Len(skills)
                /\ (Len(skills) = 0 => r.skill_match_percentage = RInt(0))

\* skills {py, aws} against "Py dev": one of two skills matches, 50 percent
C3_Witness ==
    \E t \in Threads :
        /\ MatchReturned(t)
        /\ thr[t].resume.skills = <<Py, Aws>>
        /\ thr[t].jd = JobPyDev
        /\ thr[t].result.skill_match_percentage = RInt(50)
        /\ thr[t].result.matched_skills_count = 1

\* C4: a call during which the embedding provider failed ends in an error at
\* its caller; it never returns a vector or a MatchResult
C4_ProviderFailurePropagates ==
    \A t \in Threads :
        thr[t].failed => thr[t].pc = "raised" /\ thr[t].result = NoResult

\* the provider failed on the job description, after the profile was embedded
C4_Witness ==
    \E t \in Threads :
        /\ thr[t].failed
        /\ thr[t].op = "match"
        /\ thr[t].stage = 2
        /\ thr[t].pc = "raised"

\* C6: whatever calls came before, get_embedding(text) of a ranker returns the
\* vector the provider yields for that text and that ranker's model, and a
\* match is computed from the provider's vectors of its profile and its job text
C6_EmbeddingIsProviderVector ==
    \A t \in Threads :
        /\ (thr[t].pc = "returned" /\ thr[t].op = "ge") =>
                thr[t].result.vec = Encode(thr[t].ranker, thr[t].text)
        /\ (thr[t].op = "match" /\ thr[t].stage = 2) =>
                thr[t].rvec = Encode(thr[t].ranker, ResumeProfile(thr[t].resume))
        /\ MatchReturned(t) =>
                thr[t].result = MatchResult(thr[t].resume, thr[t].jd,
                                            Encode(thr[t].ranker, ResumeProfile(thr[t].resume)),
                                            Encode(thr[t].ranker, thr[t].jd))

\* a call answered from a cache while the lru cache holds a different vector
\* for the same text under the other model
C6_Witness ==
    \E t \in Threads :
        /\ thr[t].pc = "returned"
        /\ thr[t].op = "ge"
        /\ thr[t].src \in {"lru", "disk"}
        /\ \E i \in 1..Len(lru) :
                /\ lru[i].key[2] = thr[t].text
                /\ lru[i].key[1] # thr[t].ranker
                /\ lru[i].val # thr[t].result.vec

\* C7: the provider computes the embedding of a (ranker, text) key at most
\* once, also when several callers ask for it concurrently
C7_ProviderInvokedOncePerKey ==
    \A k \in DOMAIN computed : computed[k] <= 1

(***************************************************************************)
(* Properties of session creation (SpecSession).                           *)
(***************************************************************************)
\* C5: a session holds a computed match, marked match_calculation, exactly
\* when a candidate record and a non-empty job description were available at
\* creation (with the matcher module loaded); otherwise it holds the score 0
\* and match_calculation is false
C5_MatchComputedWhenAvailable ==
    \A i \in 1..Len(active_sessions) :
        LET s == active_sessions[i]
            both == ~IsNone(s.candidate_data) /\ Len(s.job_description) > 0
        IN  /\ (both /\ MODULES_STATUS.matcher) =>
                    /\ s.resume_processing_log.match_calculation
                    /\ s.resume_match_score.kind = "match"
            /\ ~both =>
                    /\ ~s.resume_processing_log.match_calculation
                    /\ s.resume_match_score = ZeroScore

(***************************************************************************)
(* Properties of the response evaluator (SpecEval).                        *)
(***************************************************************************)
ExternalGiven ==
    /\ evalIn.status = "called"
    /\ ~IsNone(evalIn.ai_evaluation)
    /\ "overall_score" \in DOMAIN evalIn.ai_evaluation

\* C8: with the external evaluation absent the evaluator does not raise and
\* its result carries used_fallback = true; with an external evaluation
\* present the result does not carry the mark
C8_AbsentExternalFallsBack ==
    evalIn.status = "called" =>
        /\ evalOut.status = "ok"
        /\ IsNone(evalIn.ai_evaluation) =>
                "used_fallback" \in DOMAIN evalOut.eval /\ evalOut.eval["used_fallback"]
        /\ ~IsNone(evalIn.ai_evaluation) =>
                ~("used_fallback" \in DOMAIN evalOut.eval /\ evalOut.eval["used_fallback"])

\* C9: with an external evaluation present, final_overall_score =
\* clamp(1, 10, 0.7*external.overall_score + 0.3*rule_based_overall), where
\* rule_based_overall is the mean of the technical, quality and length scores;
\* final_overall_score is in [1,10]
C9_FinalOverallScore ==
    ExternalGiven =>
        LET e == evalOut.eval
            ext == evalIn.ai_evaluation["overall_score"]
            len == RClamp(RInt(1), RInt(5),
                          RAdd(RMul(Rat(e.response_length - 20, 40), RInt(4)), RInt(1)))
        IN  /\ evalOut.status = "ok"
            /\ e.rule_based_score =
                    RDiv(RAdd(RAdd(e.technical_keyword_score, e.quality_indicator_score), len),
                         RInt(3))
            /\ e.final_overall_score =
                    RClamp(RInt(1), RInt(10),
                           RAdd(RMul(Rat(7, 10), ext), RMul(Rat(3, 10), e.rule_based_score)))
            /\ InRange(1, 10, e.final_overall_score)

\* external 9 against rule-based 4 gives 7.5
C9_Witness ==
    /\ ExternalGiven
    /\ evalIn.ai_evaluation["overall_score"] = RInt(9)
    /\ evalOut.eval.rule_based_score = RInt(4)
    /\ evalOut.eval.final_overall_score = Rat(15, 2)

\* C10: with an external evaluation present, consistency_score =
\* clamp(0, 1, 1 - |external.overall_score - rule_based_overall| / 10), lies in
\* [0,1], and the confidence is high iff it is >= 0.8, medium iff it is in
\* [0.6, 0.8), low otherwise
C10_ConsistencyAndConfidence ==
    ExternalGiven =>
        LET e == evalOut.eval
            ext == evalIn.ai_evaluation["overall_score"]
            c == e.consistency_score
        IN  /\ c = RClamp(RInt(0), RInt(1),
                          RSub(RInt(1), RDiv(RAbs(RSub(ext, e.rule_based_score)), RInt(10))))
            /\ InRange(0, 1, c)
            /\ (e.evaluation_confidence = "high") <=> RLe(Rat(4, 5), c)
            /\ (e.evaluation_confidence = "medium") <=> (RLe(Rat(3, 5), c) /\ RLt(c, Rat(4, 5)))
            /\ (e.evaluation_confidence = "low") <=> RLt(c, Rat(3, 5))

\* external 9 against rule-based 4 gives consistency 0.5 and low confidence
C10_Witness ==
    /\ ExternalGiven
    /\ evalIn.ai_evaluation["overall_score"] = RInt(9)
    /\ evalOut.eval.rule_based_score = RInt(4)
    /\ evalOut.eval.consistency_score = Rat(1, 2)
    /\ evalOut.eval.evaluation_confidence = "low"

\* C11: whatever the external evaluation holds (values out of range, keys
\* missing), the numeric fields of the evaluation returned lie in their
\* documented ranges: the overall scores in [1,10], the technical depths and
\* the communication scores in [1,5]; a missing key takes its default.
C11_NumericFieldsInRange ==
    (evalOut.status = "ok") =>
        /\ InRange(1, 10, evalOut.eval.ai_overall_score)
        /\ InRange(1, 10, evalOut.eval.final_overall_score)
        /\ InRange(1, 5, evalOut.eval.ai_technical_depth)
        /\ InRange(1, 5, evalOut.eval.final_technical_depth)
        /\ InRange(1, 5, evalOut.eval.ai_communication)
        /\ InRange(1, 5, evalOut.eval.final_communication)
        /\ ("overall_score" \notin DOMAIN evalIn.ai_evaluation
                => evalOut.eval.ai_overall_score = RInt(5))
        /\ ("technical_depth" \notin DOMAIN evalIn.ai_evaluation
                => evalOut.eval.ai_technical_depth = RInt(3))
        /\ ("communication_clarity" \notin DOMAIN evalIn.ai_evaluation
                => evalOut.eval.ai_communication = RInt(3))

(***************************************************************************)
(* Properties of one interview (SpecInterview).                            *)
(***************************************************************************)
\* C12: a reply of the external model that cannot be parsed is treated as the
\* model being absent: the evaluation recorded for the response is the one
\* that is recorded, for the same response and category, when the model is
\* unavailable.
C12_MalformedReplyAsAbsent ==
    \A i \in 1..Len(ai_log) :
        LET entry == ai_log[i]
            recorded == active_sessions[entry.session_id].responses[entry.position]
        IN  (entry.available /\ entry.reply.kind \in MalformedKinds) =>
                recorded.evaluation =
                    ComprehensiveOrAi(MODULES_STATUS, recorded.response_text, recorded.category,
                                      _evaluate_with_ai(FALSE, recorded.response_text, entry.reply))

(***************************************************************************)
(* Properties of the rule-based scoring (SpecRule).                        *)
(***************************************************************************)
\* C13: length_score is 1 up to 20 words, 5 from 60 words on, (w - 20)/10 + 1
\* in between, always within [1,5], and of two responses that differ only in
\* their word count the longer one never has the smaller length_score.
C13_LengthScoreMonotone ==
    /\ \A i \in 1..Len(ruleLog) :
            LET w == ruleLog[i].response.word_count
                length_score == ruleLog[i].scores.length_score
            IN  /\ InRange(1, 5, length_score)
                /\ (w <= 20 => length_score = RInt(1))
                /\ (w >= 60 => length_score = RInt(5))
                /\ (20 < w /\ w < 60 => length_score = Rat(w - 10, 10))
    /\ \A i, j \in 1..Len(ruleLog) :
            (/\ ruleLog[i].response.phrases = ruleLog[j].response.phrases
             /\ ruleLog[i].response.word_count <= ruleLog[j].response.word_count)
                => RLe(ruleLog[i].scores.length_score, ruleLog[j].scores.length_score)

\* a response of 30 words scored 2 and then the same content in 45 words
\* scored 3.5
C13_Witness ==
    /\ Len(ruleLog) = 2
    /\ ruleLog[1].response.phrases = ruleLog[2].response.phrases
    /\ ruleLog[1].response.word_count = 30
    /\ ruleLog[2].response.word_count = 45
    /\ ruleLog[1].scores.length_score = RInt(2)
    /\ ruleLog[2].scores.length_score = Rat(7, 2)

(***************************************************************************)
(* Properties of the aggregate scoring (SpecAggregate).                    *)
(***************************************************************************)
Reported == aggOut # NoCall

\* C14: the aggregate of the empty response list is a report, not a failure:
\* every statistic in it is 0, the category breakdown and the standout list
\* are empty and the red flags contain "No interview responses to evaluate".
C14_EmptyListReport ==
    (aggIn = << >> /\ Reported) =>
        /\ aggOut.status = "returned"
        /\ \A k \in DOMAIN aggOut.report.overall_statistics :
                aggOut.report.overall_statistics[k] = RInt(0)
        /\ {"mean", "median", "std_deviation", "min_score", "max_score", "score_range"}
                \subseteq DOMAIN aggOut.report.overall_statistics
        /\ aggOut.report.technical_statistics = [mean |-> RInt(0), consistency |-> RInt(0)]
        /\ aggOut.report.communication_statistics = [mean |-> RInt(0), consistency |-> RInt(0)]
        /\ aggOut.report.performance_consistency = RInt(0)
        /\ aggOut.report.category_performance = << >>
        /\ aggOut.report.standout_indicators = << >>
        /\ \E i \in 1..Len(aggOut.report.red_flags) :
                aggOut.report.red_flags[i] = "No interview responses to evaluate"

\* the empty list has been aggregated
C14_Witness ==
    /\ aggIn = << >>
    /\ Reported
    /\ aggOut.report.red_flags = <<"No interview responses to evaluate">>

\* the score of each response as the aggregate reads it
Scores == ScoresOf(aggIn, "final_overall_score", "overall_score", 5)

MeanOf(scores) == RDiv(RSum(scores), RInt(Len(scores)))

\* the trend reported follows the rule of the two halves
TrendFollowsRule ==
    LET n == Len(Scores)
        first == MeanOf(SubSeq(Scores, 1, n \div 2))
        second == MeanOf(SubSeq(Scores, (n \div 2) + 1, n))
        trend == aggOut.report.improvement_trend
    IN  IF n < 3 THEN trend = "insufficient_data"
        ELSE /\ trend \in {"improving", "declining", "stable"}
             /\ trend = "improving" <=> RLt(RAdd(first, Rat(1, 2)), second)
             /\ trend = "declining" <=> RLt(second, RSub(first, Rat(1, 2)))

ScoredNineNineEightNineEight == Scores = <<RInt(9), RInt(9), RInt(8), RInt(9), RInt(8)>>

C16_TrendIsOneOfFour ==
    Reported =>
        aggOut.report.improvement_trend
            \in {"improving", "declining", "stable", "insufficient_data"}

Advised == aggInsights # NoCall

StrongHire == "Strong Hire - Excellent candidate with consistent performance"
Hire == "Hire - Good candidate with solid performance"
Maybe == "Maybe - Average candidate, consider specific role requirements"
Pass == "Pass - Performance below expectations for this role"

ScoredThreeTwoThreeFourTwo == Scores = <<RInt(3), RInt(2), RInt(3), RInt(4), RInt(2)>>

\* C17: the hiring recommendation is decided by the overall mean and the
\* consistency rating of the report: Strong Hire when mean >= 7.5 and
\* consistency >= 0.7, else Hire when mean >= 6.5 and consistency >= 0.6, else
\* Maybe when mean >= 5.5, else Pass.  The scores [9,9,8,9,8] have consistency
\* >= 0.8 and give Strong Hire, the scores [3,2,3,4,2] give Pass.
C17_HiringRecommendation ==
    Advised =>
        LET mean == aggOut.report.overall_statistics.mean
            consistency == aggOut.report.performance_consistency
            recommendation == aggInsights.insights.hiring_recommendation
            strong == RLe(Rat(15, 2), mean) /\ RealGe(consistency, Rat(7, 10))
            hire == ~strong /\ RLe(Rat(13, 2), mean) /\ RealGe(consistency, Rat(6, 10))
            maybe == ~strong /\ ~hire /\ RLe(Rat(11, 2), mean)
        IN  /\ recommendation \in {StrongHire, Hire, Maybe, Pass}
            /\ recommendation = StrongHire <=> strong
            /\ recommendation = Hire <=> hire
            /\ recommendation = Maybe <=> maybe
            /\ (Len(aggIn) > 0 => mean = MeanOf(Scores))
            /\ (ScoredNineNineEightNineEight =>
                    RealGe(consistency, Rat(8, 10)) /\ recommendation = StrongHire)
            /\ (ScoredThreeTwoThreeFourTwo => recommendation = Pass)

\* both example lists exist among the inputs; here the first has been advised on
C17_Witness ==
    /\ Advised
    /\ ScoredNineNineEightNineEight
    /\ aggInsights.insights.hiring_recommendation = StrongHire

\* every response of the list carries a ComprehensiveEvaluation
EvaluatedByEvaluator ==
    /\ Len(aggIn) > 0
    /\ \A i \in 1..Len(aggIn) : "final_overall_score" \in DOMAIN aggIn[i].evaluation

\* the number of responses of the list that pass the test
Among(Test(_)) == Cardinality({i \in 1..Len(aggIn) : Test(aggIn[i])})

Listed(list, text) == \E i \in 1..Len(list) : list[i] = text

BrevityFlag == "Multiple very brief responses - may indicate lack of depth"
LowPerformanceFlag == "Consistently low performance across multiple areas"
ExcellenceIndicator == "Multiple excellent responses demonstrating strong competency"
TechnicalStrengthIndicator == "Strong technical knowledge and depth"

\* C18: for a non-empty list of responses evaluated by the evaluator, the red
\* flags contain the low-performance flag exactly when at least half of the
\* responses have a final_overall_score below 4; responses scored [3,2,3,4,2]
\* that are all under 15 words carry the brevity flag and the low-performance
\* flag.
C18_LowPerformanceFlag ==
    Reported =>
        LET Low(r) == RLt(r.evaluation.final_overall_score, RInt(4))
            Short(r) == r.response_text.word_count < 15
        IN  /\ EvaluatedByEvaluator =>
                (Listed(aggOut.report.red_flags, LowPerformanceFlag)
                    <=> 2 * Among(Low) >= Len(aggIn))
            /\ (ScoredThreeTwoThreeFourTwo /\ Among(Short) = Len(aggIn)) =>
                    /\ Listed(aggOut.report.red_flags, BrevityFlag)
                    /\ Listed(aggOut.report.red_flags, LowPerformanceFlag)

\* C19: for a non-empty list of responses evaluated by the evaluator, the
\* standout list contains the excellence indicator exactly when at least 40%
\* of the responses have a final_overall_score >= 8, and the
\* technical-strength indicator exactly when at least 30% have a
\* final_technical_depth >= 4.
C19_StandoutIndicators ==
    (Reported /\ EvaluatedByEvaluator) =>
        LET High(r) == RLe(RInt(8), r.evaluation.final_overall_score)
            Deep(r) == RLe(RInt(4), r.evaluation.final_technical_depth)
        IN  /\ Listed(aggOut.report.standout_indicators, ExcellenceIndicator)
                <=> 10 * Among(High) >= 4 * Len(aggIn)
            /\ Listed(aggOut.report.standout_indicators, TechnicalStrengthIndicator)
                <=> 10 * Among(Deep) >= 3 * Len(aggIn)

\* the scores, in order, of the responses of one category
ScoresIn(category) ==
    LET chosen == SelectSeq([i \in 1..Len(aggIn) |-> i], LAMBDA i : aggIn[i].category = category)
    IN  [k \in 1..Len(chosen) |-> Scores[chosen[k]]]

\* C20: the category breakdown has one entry for each category that occurs in
\* the list and no other; its response_count is the number of responses of the
\* category, its average_score the mean of their scores (final_overall_score),
\* its label excellent from 8, good from 6, average from 4, else
\* below_average; the counts add up to the length of the list.
C20_CategoryBreakdown ==
    (Reported /\ Len(aggIn) > 0) =>
        LET breakdown == aggOut.report.category_performance
        IN  /\ DOMAIN breakdown = {aggIn[i].category : i \in 1..Len(aggIn)}
            /\ \A c \in DOMAIN breakdown :
                LET mean == MeanOf(ScoresIn(c))
                IN  /\ breakdown[c].response_count = Len(ScoresIn(c))
                    /\ breakdown[c].average_score = mean
                    /\ breakdown[c].performance_level =
                            IF RLe(RInt(8), mean) THEN "excellent"
                            ELSE IF RLe(RInt(6), mean) THEN "good"
                            ELSE IF RLe(RInt(4), mean) THEN "average"
                            ELSE "below_average"
            /\ ResponseCount(aggOut.report) = Len(aggIn)

(***************************************************************************)
(* C21: the aggregate scoring is a pure function of the response list.     *)
(***************************************************************************)
\* the later calls that were made on the list of the first call
RepeatedCalls == {i \in 1..Len(aggAgain) : aggAgain[i].list = "same"}

PopulationStd(scores) ==
    IF Len(scores) < 2 THEN RInt(0)
    ELSE LET squares == [i \in 1..Len(scores) |-> RMul(scores[i], scores[i])]
         IN  Sqrt(RSub(MeanOf(squares), RMul(MeanOf(scores), MeanOf(scores))))

\* clamp(0, 1, 1 - std / 4.5)
RatingOf(std) ==
    LET rating == RealComplement(RInt(1), std, Rat(9, 2))
    IN  IF RealLt(rating, RInt(0)) THEN RInt(0)
        ELSE IF RealGt(rating, RInt(1)) THEN RInt(1)
        ELSE rating

ConsistencyFollowsRule ==
    LET rating == aggOut.report.performance_consistency
    IN  /\ rating = RatingOf(PopulationStd(Scores))
        /\ RealGe(rating, RInt(0))
        /\ ~RealGt(rating, RInt(1))
        /\ (\A i, j \in 1..Len(Scores) : Scores[i] = Scores[j]) => rating = RInt(1)

\* C25 as stated: the consistency rating of every report, the one for the
\* empty list included, is clamp(0, 1, 1 - std/4.5) with the population
\* standard deviation (0 for fewer than 2 scores), lies in [0,1] and is 1 when
\* all scores are equal.
C25_ConsistencyRatingOfEveryReport == Reported => ConsistencyFollowsRule

\* C25, for the lists that hold a response: the consistency rating is
\* clamp(0, 1, 1 - std/4.5) with the population standard deviation (0 for one
\* score), lies in [0,1] and is 1 when all scores are equal.  The report for
\* the empty list carries 0, as every statistic of it does.
C25_ConsistencyRating == (Reported /\ Len(aggIn) > 0) => ConsistencyFollowsRule

\* three scores that differ have been rated, strictly between 0 and 1
C25_Witness ==
    /\ Reported
    /\ Len(aggIn) = 3
    /\ Scores[1] # Scores[2]
    /\ RealGt(aggOut.report.performance_consistency, RInt(0))
    /\ RealLt(aggOut.report.performance_consistency, RInt(1))

(***************************************************************************)
(* Properties of the session state machine (SpecLifecycle).                *)
(***************************************************************************)
\* the call that made the step was a submit_response that recorded a response
Recorded == apiOut'.op = "submit_response" /\ apiOut'.status = "response_recorded"

\* the response list of the session has one more entry and the earlier
\* entries are what and where they were
GrewByOne(sid) ==
    LET old == active_sessions[sid].responses
        new == active_sessions'[sid].responses
    IN  /\ Len(new) = Len(old) + 1
        /\ SubSeq(new, 1, Len(old)) = old

\* C22: a session's response list is append-only.  No operation (create_session,
\* generate_question, submit_response, the final report, the end of the
\* session) removes a session or removes, moves or changes an entry of a
\* response list; the only change is that a submit_response that records a
\* response appends exactly one entry at the end.
C22_ResponsesAppendOnly ==
    [][/\ DOMAIN active_sessions \subseteq DOMAIN active_sessions'
       /\ \A sid \in DOMAIN active_sessions :
            \/ active_sessions'[sid].responses = active_sessions[sid].responses
            \/ Recorded /\ GrewByOne(sid)
       /\ Recorded =>
            /\ \E sid \in DOMAIN active_sessions : GrewByOne(sid)
            /\ \A sid \in DOMAIN active_sessions' \ DOMAIN active_sessions :
                    active_sessions'[sid].responses = << >>]_vars

\* two responses were recorded, a report was made of the first alone and the
\* session was ended
C22_Witness ==
    /\ 1 \in DOMAIN active_sessions
    /\ Len(active_sessions[1].responses) = 2
    /\ active_sessions[1].status = "completed"
    /\ last_report # NoCall
    /\ last_report.detailed_responses = SubSeq(active_sessions[1].responses, 1, 1)

\* the sections of a report all describe the given response list
ReportDescribes(report, list) ==
    LET aggregate_scores == calculate_interview_aggregate_scores(list)
    IN  /\ report.detailed_responses = list
        /\ report.session_metadata.questions_answered = Len(list)
        /\ report.performance_metrics = _calculate_performance_metrics(list)
        /\ \A section \in DOMAIN aggregate_scores :
                report.advanced_analytics[section] = aggregate_scores[section]
        /\ report.advanced_analytics.insights = generate_scoring_insights(aggregate_scores)

AskedIn(session) ==
    {session.questions_asked[i].question_id : i \in 1..Len(session.questions_asked)}

C26_QuestionCounters ==
    \A sid \in DOMAIN active_sessions :
        LET session == active_sessions[sid]
        IN  /\ 0 <= session.current_question
            /\ session.current_question <= session.total_questions
            /\ Len(session.questions_asked) = session.current_question
            /\ \A i \in 1..Len(session.questions_asked) :
                    session.questions_asked[i].question_number = i

\* all planned questions were asked, a response was recorded and the
\* interview was found completed by a further generate_question
C26_Witness ==
    /\ 1 \in DOMAIN active_sessions
    /\ active_sessions[1].current_question = active_sessions[1].total_questions
    /\ Len(active_sessions[1].responses) > 0
    /\ apiOut.op = "generate_question"
    /\ apiOut.status = "interview_completed"

\* the status a session had before the step was "completed"
WasCompleted(sid) == active_sessions[sid].status = "completed"

\* C27: a session's status only moves from active to completed and never
\* back.  Once a session is completed (by generate_question finding
\* current_question >= total_questions or by the end of the session), every
\* later generate_question is rejected with an error, appends no question and
\* leaves current_question as it is.
C27_StatusOnlyCompletes ==
    /\ [](\A sid \in DOMAIN active_sessions :
            active_sessions[sid].status \in {"active", "completed"})
    /\ [][\A sid \in DOMAIN active_sessions :
            WasCompleted(sid) =>
                /\ active_sessions'[sid].status = "completed"
                /\ active_sessions'[sid].questions_asked = active_sessions[sid].questions_asked
                /\ active_sessions'[sid].current_question = active_sessions[sid].current_question
                /\ (apiOut'.op = "generate_question" /\ DOMAIN active_sessions = {sid})
                        => apiOut'.status = "error"]_vars

\* the session was ended after one of its three questions, and a further
\* generate_question was rejected
C27_Witness ==
    /\ 1 \in DOMAIN active_sessions
    /\ active_sessions[1].status = "completed"
    /\ active_sessions[1].current_question = 1
    /\ apiOut = HTTPException("generate_question", 400)

\* C28: once a session's status is completed, its response list is frozen:
\* every submit_response for that session is rejected and no entry is
\* appended, so that two final reports generated after completion are computed
\* from the same response list.
C28_CompletedSessionIsFrozen ==
    [][\A sid \in DOMAIN active_sessions :
            WasCompleted(sid) =>
                /\ active_sessions'[sid].responses = active_sessions[sid].responses
                /\ (apiOut'.op = "submit_response" /\ DOMAIN active_sessions = {sid})
                        => apiOut'.status = "error"]_vars

\* C29: every recorded response belongs to a question asked in the same
\* session and each asked question has at most one recorded response: the
\* question_ids of the response list are pairwise distinct and all occur in
\* questions_asked, so the number of responses exceeds neither current_question
\* nor total_questions.
C29_OneResponsePerAskedQuestion ==
    \A sid \in DOMAIN active_sessions :
        LET session == active_sessions[sid]
            responses == session.responses
        IN  /\ \A i \in 1..Len(responses) : responses[i].question_id \in AskedIn(session)
            /\ \A i, j \in 1..Len(responses) :
                    responses[i].question_id = responses[j].question_id => i = j
            /\ Len(responses) <= session.current_question
            /\ Len(responses) <= session.total_questions

\* what a generate_question answered by the session (not by "session not
\* found") does, by the state it finds
QuestionStep(sid) ==
    LET session == active_sessions[sid]
        number == session.current_question + 1
    IN  IF session.status # "active"
        THEN apiOut'.status = "error" /\ active_sessions' = active_sessions
        ELSE IF session.current_question < session.total_questions
        THEN /\ apiOut'.status = "question"
             /\ apiOut'.question_number = number
             /\ apiOut'.remaining_questions = session.total_questions - number
             /\ active_sessions'[sid].current_question = number
             /\ active_sessions'[sid].status = "active"
        ELSE /\ apiOut'.status = "interview_completed"
             /\ active_sessions'[sid].status = "completed"

\* C30: an active session whose client keeps requesting questions eventually
\* completes.  From creation with total_questions = N, the first N
\* generate_question calls return the questions numbered 1..N, each with
\* remaining_questions = N - number, the next call returns interview_completed
\* and sets the status to completed, and under repeated generate_question
\* calls no session stays active forever, however many responses are submitted
\* in between.
C30_SessionEventuallyCompletes ==
    /\ [][(/\ apiOut'.op = "generate_question"
           /\ ~(apiOut'.status = "error" /\ apiOut'.status_code = 404))
            => \A sid \in DOMAIN active_sessions : QuestionStep(sid)]_vars
    /\ (1 \in DOMAIN active_sessions)
            ~> (1 \in DOMAIN active_sessions /\ active_sessions[1].status = "completed")

\* the interview was completed by the generate_question after the last of
\* its three questions, with two responses submitted in between
C30_Witness ==
    /\ 1 \in DOMAIN active_sessions
    /\ active_sessions[1].status = "completed"
    /\ active_sessions[1].current_question = 3
    /\ Len(active_sessions[1].responses) = 2
    /\ apiOut.op = "generate_question"
    /\ apiOut.status = "interview_completed"

====
